---- MODULE Spec2Model ----
(***************************************************************************)
(* The claim verification pipeline of news-fact-checker/backend/server.js. *)
(*                                                                         *)
(* Numbers: every NLI score, average and credibility value is an integer   *)
(* count of hundredths (0.35 is 35).  A reputability weight is kept        *)
(* doubled (1.5 is 3, 1.0 is 2), and a mean is kept as the pair            *)
(* (weighted sum, total weight); comparisons of a mean with a threshold    *)
(* are cross-multiplied, so the arithmetic is exact rational arithmetic.   *)
(* Time is counted in units of 15 minutes.                                 *)
(***************************************************************************)
EXTENDS Integers, Sequences, FiniteSets, TLC

VARIABLES
    env,                \* process.env as read at start-up (server.js 24, 46-47)
    now,                \* Date.now(), in units of 15 minutes
    API_CACHE,          \* server.js 28: Map in insertion order
    NLI_CACHE,          \* server.js 27: Map in insertion order
    currentApiKeyIndex, \* server.js 51
    rateLimitedKeys,    \* server.js 53
    run,                \* the requests being served: run id -> record
    turn,               \* run id -> parity of the number of times its handler ran
    call,               \* a direct call of one function: its name and arguments
    ret,                \* the value that call returned, or Pending
    tab                 \* a browser tab: its content script, the popup's messages to
                        \* it and the service worker's requests for it

vars == <<env, now, API_CACHE, NLI_CACHE, currentApiKeyIndex, rateLimitedKeys,
          run, turn, call, ret, tab>>

shared == <<env, now, API_CACHE, NLI_CACHE, currentApiKeyIndex, rateLimitedKeys>>

\* JavaScript's undefined (a missing field) and null
Undefined == "undefined"
NullScore == [null |-> TRUE]
UndefinedSource == [undefined |-> TRUE]

\* The direct-call harness: no call made, no value returned yet, a value
NotCalled == [fn |-> "none"]
NoReturn == [done |-> FALSE]

\* No browser tab takes part
NoTab == [loaded |-> FALSE]
Returned(v) == [done |-> TRUE, value |-> v]

(***************************************************************************)
(* Small helpers.                                                          *)
(***************************************************************************)
Min(a, b) == IF a <= b THEN a ELSE b
Max(a, b) == IF a >= b THEN a ELSE b
Abs(a) == IF a >= 0 THEN a ELSE -a

\* Array.prototype.slice(0, n)
Slice(s, n) == SubSeq(s, 1, Min(n, Len(s)))

\* All sequences over S of length at most n.
SeqsUpTo(S, n) == UNION {[1..k -> S] : k \in 0..n}

(***************************************************************************)
(* Publishers and the reputable allow-list.                                *)
(***************************************************************************)
\* server.js 702 (and 401, 1099, 1215): the allow-list
reputableSources ==
    {"Reuters", "AP", "Bloomberg", "BBC", "CNN", "The Guardian", "NPR",
     "The New York Times", "The Washington Post"}

\* String.prototype.includes on the publisher names the model uses: a name
\* includes itself, and "AP News" includes "AP".
includes(publisher, rs) ==
    \/ publisher = rs
    \/ publisher = "AP News" /\ rs = "AP"

\* server.js 722: source && reputableSources.some(rs => source.publisher?.includes(rs))
isReputable(source) ==
    /\ source # UndefinedSource
    /\ source.publisher # Undefined
    /\ \E rs \in reputableSources : includes(source.publisher, rs)

(***************************************************************************)
(* calculateWeightedConsensus (server.js 701-777).                         *)
(***************************************************************************)
\* server.js 716: a score the loop skips
invalidScore_nullOnly(score) ==
    score = NullScore
invalidScore(score) ==
    \/ score = NullScore
    \/ (score.entail = 0 /\ score.contra = 0 /\ score.neutral = 0)

\* server.js 723, doubled: 1.5 -> 3, 1.0 -> 2
weightOf_flat(source) == 2
weightOf(source) == IF isReputable(source) THEN 3 ELSE 2

\* server.js 709-728: the accumulation over scores[1..n]
RECURSIVE accumulate(_, _, _)
accumulate(scores, sources, n) ==
    IF n = 0
    THEN [weightedEntail |-> 0, weightedContra |-> 0, totalWeight |-> 0,
          validScores |-> 0]
    ELSE LET acc == accumulate(scores, sources, n - 1)
             score == scores[n]
             source == IF n <= Len(sources) THEN sources[n] ELSE UndefinedSource
             weight == weightOf(source)
         IN  IF invalidScore(score)
             THEN acc
             ELSE [weightedEntail |-> acc.weightedEntail + score.entail * weight,
                   weightedContra |-> acc.weightedContra + score.contra * weight,
                   totalWeight |-> acc.totalWeight + weight,
                   validScores |-> acc.validScores + 1]

\* server.js 731: the gate on the number of valid scores
enoughScores_one(acc) == ~(acc.validScores < 1 \/ acc.totalWeight = 0)
enoughScores(acc) == ~(acc.validScores < 2 \/ acc.totalWeight = 0)

\* server.js 735-776: the threshold table on avgEntail = we / (100 * tw) and
\* avgContra = wc / (100 * tw), tw > 0
classify_looseRatio(we, wc, tw) ==
    IF we >= 35 * tw /\ wc <= 15 * tw THEN "strongly_supported"
    ELSE IF we >= 25 * tw /\ wc <= 20 * tw THEN "supported"
    ELSE IF wc >= 35 * tw /\ we <= 15 * tw THEN "refuted"
    ELSE IF wc >= 25 * tw /\ we <= 20 * tw THEN "likely_false"
    ELSE IF 2 * we >= 3 * wc /\ we > 15 * tw THEN "supported"
    ELSE IF 2 * wc >= 3 * we /\ wc > 15 * tw THEN "likely_false"
    ELSE IF Abs(we - wc) <= 10 * tw THEN "contested"
    ELSE IF we > wc /\ we > 10 * tw THEN "weakly_supported"
    ELSE IF wc > we /\ wc > 10 * tw THEN "weakly_refuted"
    ELSE "insufficient_evidence"
classify_weakAboveHalf(we, wc, tw) ==
    IF we >= 35 * tw /\ wc <= 15 * tw THEN "strongly_supported"
    ELSE IF we >= 25 * tw /\ wc <= 20 * tw THEN "supported"
    ELSE IF wc >= 35 * tw /\ we <= 15 * tw THEN "refuted"
    ELSE IF wc >= 25 * tw /\ we <= 20 * tw THEN "likely_false"
    ELSE IF 2 * we > 3 * wc /\ we > 15 * tw THEN "supported"
    ELSE IF 2 * wc > 3 * we /\ wc > 15 * tw THEN "likely_false"
    ELSE IF Abs(we - wc) <= 10 * tw THEN "contested"
    ELSE IF we > wc /\ we > 50 * tw THEN "weakly_supported"
    ELSE IF wc > we /\ wc > 50 * tw THEN "weakly_refuted"
    ELSE "insufficient_evidence"
classify(we, wc, tw) ==
    IF we >= 35 * tw /\ wc <= 15 * tw THEN "strongly_supported"
    ELSE IF we >= 25 * tw /\ wc <= 20 * tw THEN "supported"
    ELSE IF wc >= 35 * tw /\ we <= 15 * tw THEN "refuted"
    ELSE IF wc >= 25 * tw /\ we <= 20 * tw THEN "likely_false"
    ELSE IF 2 * we > 3 * wc /\ we > 15 * tw THEN "supported"
    ELSE IF 2 * wc > 3 * we /\ wc > 15 * tw THEN "likely_false"
    ELSE IF Abs(we - wc) <= 10 * tw THEN "contested"
    ELSE IF we > wc /\ we > 10 * tw THEN "weakly_supported"
    ELSE IF wc > we /\ wc > 10 * tw THEN "weakly_refuted"
    ELSE "insufficient_evidence"

calculateWeightedConsensus(scores, sources) ==
    IF Len(scores) = 0
    THEN "insufficient_evidence"
    ELSE LET acc == accumulate(scores, sources, Len(scores))
         IN  IF ~enoughScores(acc)
             THEN "insufficient_evidence"
             ELSE classify(acc.weightedEntail, acc.weightedContra, acc.totalWeight)

(***************************************************************************)
(* calculateCredibilityScore (server.js 1312-1336).                        *)
(***************************************************************************)
\* server.js 1322-1330, in hundredths
claimScore_swapped(consensus) ==
    IF consensus = "strongly_supported" THEN 100
    ELSE IF consensus = "supported" THEN 80
    ELSE IF consensus = "weakly_supported" THEN 65
    ELSE IF consensus = "contested" THEN 50
    ELSE IF consensus = "insufficient_evidence" THEN 50
    ELSE IF consensus = "weakly_refuted" THEN 30
    ELSE IF consensus = "likely_false" THEN 35
    ELSE IF consensus = "refuted" THEN 10
    ELSE 50
claimScore(consensus) ==
    IF consensus = "strongly_supported" THEN 100
    ELSE IF consensus = "supported" THEN 80
    ELSE IF consensus = "weakly_supported" THEN 65
    ELSE IF consensus = "contested" THEN 50
    ELSE IF consensus = "insufficient_evidence" THEN 50
    ELSE IF consensus = "weakly_refuted" THEN 35
    ELSE IF consensus = "likely_false" THEN 30
    ELSE IF consensus = "refuted" THEN 10
    ELSE 50

\* server.js 1315-1333: the sums over claims[1..n]
RECURSIVE credSums(_, _)
credSums(claims, n) ==
    IF n = 0
    THEN [weightedScore |-> 0, totalWeight |-> 0]
    ELSE LET acc == credSums(claims, n - 1)
             weight == claims[n].confidence_score
         IN  [weightedScore |-> acc.weightedScore + claimScore(claims[n].consensus) * weight,
              totalWeight |-> acc.totalWeight + weight]

\* The returned number is num / den hundredths.
calculateCredibilityScore(claims) ==
    IF Len(claims) = 0
    THEN [num |-> 50, den |-> 1]
    ELSE LET acc == credSums(claims, Len(claims))
         IN  IF acc.totalWeight > 0
             THEN [num |-> acc.weightedScore, den |-> acc.totalWeight]
             ELSE [num |-> 50, den |-> 1]

(***************************************************************************)
(* Map: the caches are JavaScript Maps, which keep insertion order.  A Map *)
(* is the sequence of its entries [key, value], oldest insertion first.    *)
(***************************************************************************)
MapHas(m, k) == \E i \in 1..Len(m) : m[i].key = k

MapGet(m, k) == m[CHOOSE i \in 1..Len(m) : m[i].key = k].value

RECURSIVE MapDelete(_, _)
MapDelete(m, k) ==
    IF m = <<>> THEN <<>>
    ELSE IF Head(m).key = k THEN Tail(m)
    ELSE <<Head(m)>> \o MapDelete(Tail(m), k)

\* Map.prototype.set: an existing key keeps its place, a new key goes last.
MapSet(m, k, v) ==
    IF MapHas(m, k)
    THEN [i \in 1..Len(m) |-> IF m[i].key = k THEN [key |-> k, value |-> v] ELSE m[i]]
    ELSE Append(m, [key |-> k, value |-> v])

\* m.keys().next().value of a non-empty Map
MapFirstKey(m) == m[1].key

(***************************************************************************)
(* Texts.  A text is [head, tail]: head stands for its leading characters  *)
(* (the first 500 of an evidence text, the first 200 of a claim), tail for *)
(* the rest ("" when there is none).  Two texts with one head and          *)
(* different tails differ only beyond the truncation point.                *)
(***************************************************************************)
Text(h, t) == [head |-> h, tail |-> t]

\* String.prototype.slice(0, 500) / slice(0, 200) (server.js 619-620)
truncate_identity(text) == text
truncate(text) == [text EXCEPT !.tail = ""]

\* server.js 494-556: what fallbackScoring reads off the two texts.  The words
\* of a text are not modelled; each (evidence, claim) pair has fixed lexical
\* features, chosen per pair so that every branch of the rule table occurs.
\* totalSignificantWords is 0 or 10 here, so overlapRatio is a count of tenths.
Lexical(evidence, claim) ==
    LET e == evidence.head
        t == evidence.tail
        c == claim.head
    IN  [matchCount |->
             IF c = "c1" THEN (IF e = "e1" THEN 6 ELSE IF e = "e2" THEN 3 ELSE 1)
             ELSE IF c = "c2" THEN (IF e = "e1" THEN 1 ELSE IF e = "e2" THEN 8 ELSE 5)
             ELSE 0,
         totalSignificantWords |-> IF c \in {"c1", "c2", "c3"} THEN 10 ELSE 0,
         numberMatch |-> (c = "c1" /\ e = "e1") \/ (c = "c2" /\ e \in {"e2", "m1"}),
         hasSupport |-> e \in {"e1", "m1"} \/ t = "s",
         hasContradiction |-> e \in {"e2", "m2"}]

\* server.js 580: entailScore *= 0.4
reduceEntail_none(entailScore) == entailScore
reduceEntail(entailScore) == (entailScore * 4) \div 10

\* server.js 558-602 on those features; scores in hundredths.  overlapRatio is
\* matchCount / totalSignificantWords; totalSignificantWords divides 70, so
\* overlapRatio * 0.7 is a whole number of hundredths.
fallbackScores(f) ==
    LET m == f.matchCount
        t == f.totalSignificantWords
        \* overlapRatio > num / den
        over(num, den) == t > 0 /\ den * m > num * t
        entail0 == IF over(5, 10) /\ f.numberMatch THEN 45
                   ELSE IF over(4, 10) THEN 35
                   ELSE IF over(3, 10) THEN 25
                   ELSE IF over(2, 10) THEN 15
                   ELSE 0
        entail1 == IF f.hasSupport /\ over(2, 10) THEN Min(entail0 + 25, 60) ELSE entail0
        contradicted == f.hasContradiction /\ over(2, 10)
        contra1 == IF contradicted THEN Max(35, (70 * m) \div t) ELSE 0
        entail2 == IF contradicted THEN reduceEntail(entail1) ELSE entail1
        \* overlapRatio < 0.15
        unrelated == (t = 0 \/ 20 * m < 3 * t) /\ ~f.hasSupport /\ ~f.hasContradiction
        entail3 == IF unrelated THEN 5 ELSE entail2
        contra3 == IF unrelated THEN 5 ELSE contra1
        entailScore == Min(Max(entail3, 0), 70)
        contraScore == Min(Max(contra3, 0), 70)
    IN  [entail |-> entailScore,
         contra |-> contraScore,
         neutral |-> Max(0, 100 - entailScore - contraScore)]

\* server.js 493-603
fallbackScoring(evidence, claim) == fallbackScores(Lexical(evidence, claim))

(***************************************************************************)
(* performEnhancedNLI (server.js 608-696).                                 *)
(*                                                                         *)
(* A reply of the external capability is [kind |-> "error"] (the call      *)
(* rejects), [kind |-> "timeout"] (the 5 s timer wins the race) or         *)
(* [kind |-> "result", labels, scores]: the labels and scores arrays of    *)
(* the object, or of the first element of the array, it resolves with.     *)
(* A score is a number of hundredths or NaN (a missing or non-numeric      *)
(* entry).                                                                 *)
(***************************************************************************)
NaN == 1000000
CACHE_TTL == 2
MAX_CACHE_SIZE == 3

\* Array.prototype.indexOf, 0 for "not found" (JavaScript's -1)
indexOf(seq, x) ==
    IF \E i \in 1..Len(seq) : seq[i] = x
    THEN CHOOSE i \in 1..Len(seq) : seq[i] = x /\ \A j \in 1..(i - 1) : seq[j] # x
    ELSE 0

\* scores[idx]: undefined beyond the end of the array
at(scores, idx) == IF idx <= Len(scores) THEN scores[idx] ELSE NaN

\* server.js 659-668
nliScoresOf(labels, scores) ==
    LET supportIdx == indexOf(labels, "supports")
        contradictIdx == indexOf(labels, "contradicts")
        unrelatedIdx == indexOf(labels, "unrelated")
    IN  [entail |-> IF supportIdx # 0 THEN at(scores, supportIdx) ELSE 0,
         contra |-> IF contradictIdx # 0 THEN at(scores, contradictIdx) ELSE 0,
         neutral |-> IF unrelatedIdx # 0 THEN at(scores, unrelatedIdx) ELSE 50]

\* A score that is JavaScript's null (JSON's null in the reply), and the
\* number an arithmetic operator makes of a score: null counts as 0,
\* undefined and NaN make the result NaN
JsNull == 2000000
toNumber(x) == IF x = JsNull THEN 0 ELSE x

\* server.js 671-672: totalScore < 0.5 || totalScore > 1.5 || isNaN(totalScore)
invalidTotal_rangeChecked(s) ==
    \/ s.entail = NaN \/ s.contra = NaN \/ s.neutral = NaN
    \/ s.entail + s.contra + s.neutral < 50
    \/ s.entail + s.contra + s.neutral > 150
    \/ \E x \in {s.entail, s.contra, s.neutral} : x < 0 \/ x > 100
invalidTotal(s) ==
    \/ s.entail = NaN \/ s.contra = NaN \/ s.neutral = NaN
    \/ toNumber(s.entail) + toNumber(s.contra) + toNumber(s.neutral) < 50
    \/ toNumber(s.entail) + toNumber(s.contra) + toNumber(s.neutral) > 150

\* server.js 623
nliCacheKey(evidence, claim) == <<truncate(evidence), truncate(claim)>>

\* server.js 679-688: the insertion, with the eviction of the first key when full
cacheInsert(cache, key, result, t) ==
    LET room == IF Len(cache) >= MAX_CACHE_SIZE
                THEN MapDelete(cache, MapFirstKey(cache))
                ELSE cache
    IN  MapSet(room, key, [result |-> result, timestamp |-> t])

\* server.js 609-645: performEnhancedNLI up to its await.  The outcome is
\*   done    - whether it returned without calling the external capability
\*   result  - the value returned then
\*   cache   - NLI_CACHE afterwards
\*   lookup  - whether NLI_CACHE was read
nliBegin_noTokenCheck(hasToken, cache, t, evidence, claim) ==
    LET key == nliCacheKey(evidence, claim)
    IN  IF MapHas(cache, key)
        THEN IF t - MapGet(cache, key).timestamp < CACHE_TTL
             THEN [done |-> TRUE, result |-> MapGet(cache, key).result,
                   cache |-> cache, lookup |-> TRUE]
             ELSE [done |-> FALSE, result |-> NullScore,
                   cache |-> MapDelete(cache, key), lookup |-> TRUE]
        ELSE [done |-> FALSE, result |-> NullScore,
              cache |-> cache, lookup |-> TRUE]
nliBegin_ttlInclusive(hasToken, cache, t, evidence, claim) ==
    IF ~hasToken
    THEN [done |-> TRUE, result |-> fallbackScoring(evidence, claim),
          cache |-> cache, lookup |-> FALSE]
    ELSE LET key == nliCacheKey(evidence, claim)
         IN  IF MapHas(cache, key)
             THEN IF t - MapGet(cache, key).timestamp <= CACHE_TTL
                  THEN [done |-> TRUE, result |-> MapGet(cache, key).result,
                        cache |-> cache, lookup |-> TRUE]
                  ELSE [done |-> FALSE, result |-> NullScore,
                        cache |-> MapDelete(cache, key), lookup |-> TRUE]
             ELSE [done |-> FALSE, result |-> NullScore,
                   cache |-> cache, lookup |-> TRUE]
nliBegin(hasToken, cache, t, evidence, claim) ==
    IF ~hasToken
    THEN [done |-> TRUE, result |-> fallbackScoring(evidence, claim),
          cache |-> cache, lookup |-> FALSE]
    ELSE LET key == nliCacheKey(evidence, claim)
         IN  IF MapHas(cache, key)
             THEN IF t - MapGet(cache, key).timestamp < CACHE_TTL
                  THEN [done |-> TRUE, result |-> MapGet(cache, key).result,
                        cache |-> cache, lookup |-> TRUE]
                  ELSE [done |-> FALSE, result |-> NullScore,
                        cache |-> MapDelete(cache, key), lookup |-> TRUE]
             ELSE [done |-> FALSE, result |-> NullScore,
                   cache |-> cache, lookup |-> TRUE]

\* server.js 647-695: performEnhancedNLI from the reply on.  failed tells
\* whether the external call gave no usable result (the catch at 690-694 or
\* the validation at 672-675), so that the fallback scorer answered.
nliEnd(cache, t, evidence, claim, reply) ==
    IF reply.kind # "result"
    THEN [result |-> fallbackScoring(evidence, claim), cache |-> cache, failed |-> TRUE]
    ELSE LET nliScores == nliScoresOf(reply.labels, reply.scores)
         IN  IF invalidTotal(nliScores)
             THEN [result |-> fallbackScoring(evidence, claim), cache |-> cache,
                   failed |-> TRUE]
             ELSE [result |-> nliScores,
                   cache |-> cacheInsert(cache, nliCacheKey(evidence, claim), nliScores, t),
                   failed |-> FALSE]

(***************************************************************************)
(* Array helpers.                                                          *)
(***************************************************************************)
\* Array.prototype.sort with a comparator, which is stable: an element comes
\* after the elements the comparator puts strictly before it and after the
\* earlier elements it ties with.  Before(a, b) is "the comparator puts a
\* strictly before b".
SortBy(s, Before(_, _)) ==
    LET rank(i) ==
            Cardinality({j \in 1..Len(s) : Before(s[j], s[i])})
                + Cardinality({j \in 1..(i - 1) :
                                  ~Before(s[j], s[i]) /\ ~Before(s[i], s[j])})
                + 1
    IN  [k \in 1..Len(s) |-> s[CHOOSE i \in 1..Len(s) : rank(i) = k]]

\* Array.prototype.filter
Filter(s, Keep(_)) == SelectSeq(s, Keep)

\* [...new Set(s)]: the first occurrence of each element, in order
RECURSIVE Unique(_)
Unique(s) ==
    IF s = <<>> THEN <<>>
    ELSE LET init == Unique(SubSeq(s, 1, Len(s) - 1))
             x == s[Len(s)]
         IN  IF \E i \in 1..Len(init) : init[i] = x THEN init ELSE Append(init, x)

RECURSIVE Flatten(_)
Flatten(ss) == IF ss = <<>> THEN <<>> ELSE Head(ss) \o Flatten(Tail(ss))

(***************************************************************************)
(* extractFactualClaims (server.js 60-84).  A page text is the sequence of *)
(* its sentences; a sentence carries what the heuristics and the language  *)
(* library compute from its characters: whether it passes the length and   *)
(* content filters, its scoreFactualClaim (in hundredths), its entities    *)
(* (extractEntities, server.js 173-192) and, in lex, what buildSearchQueries *)
(* reads off claim.text: the numbers, verbs and nouns found in it and its  *)
(* words.                                                                  *)
(***************************************************************************)
Sentence(text, passes, score, entities, lex) ==
    [text |-> text, passes |-> passes, score |-> score, entities |-> entities,
     lex |-> lex]

\* server.js 67-81
\* server.js 79: item.score > 0.4
keptForScore_half(score) == score > 50
keptForScore(score) == score > 40

extractFactualClaims(text, k) ==
    LET passing(s) == s.passes
        kept(item) == keptForScore(item.score)
        higher(a, b) == a.score > b.score
        candidates == SortBy(Filter(Filter(text, passing), kept), higher)
    IN  [i \in 1..Min(Len(candidates), Min(k, 15)) |->
            [text |-> candidates[i].text, score |-> candidates[i].score,
             entities |-> candidates[i].entities, lex |-> candidates[i].lex]]

(***************************************************************************)
(* buildSearchQueries (server.js 197-249).  Here a string is the sequence  *)
(* of its words, "" the empty sequence, and join(' ') the concatenation;   *)
(* a word is one of the words below, with its number of characters.        *)
(***************************************************************************)
\* String.prototype.length of a word
wordLength(word) ==
    IF word \in {"in", "up", "3%"} THEN 2
    ELSE IF word \in {"May", "The", "tax", "cut"} THEN 3
    ELSE IF word \in {"rose", "page", "here", "Fact", "Rome", "news"} THEN 4
    ELSE IF word \in {"rates", "chief", "click", "there", "Paris"} THEN 5
    ELSE IF word \in {"Yellen", "raised", "jumped", "Powell", "recent"} THEN 6
    ELSE IF word \in {"Reuters", "Lagarde", "Checker"} THEN 7
    ELSE IF word \in {"Treasury"} THEN 8
    ELSE 12

\* String.prototype.length: the words and the spaces between them
RECURSIVE length(_)
length(str) ==
    IF str = <<>> THEN 0
    ELSE IF Len(str) = 1 THEN wordLength(str[1])
    ELSE wordLength(Head(str)) + 1 + length(Tail(str))

\* server.js 201
skipTerms ==
    {"realtime", "fact", "check", "analyzing", "page", "content", "click", "here"}

\* word.toLowerCase().includes(skip) on the words of the model
wordIncludes(word, skip) ==
    <<word, skip>> \in {<<"page", "page">>, <<"here", "here">>, <<"there", "here">>,
                        <<"click", "click">>, <<"Fact", "fact">>, <<"Checker", "check">>}

\* server.js 211, 222, 234: skipTerms.some(skip => str.toLowerCase().includes(skip))
hasSkipTerm(str) ==
    \E i \in 1..Len(str) : \E skip \in skipTerms : wordIncludes(str[i], skip)

\* server.js 245
GenericQuery == <<"news", "recent", "developments">>

\* server.js 197-249
buildSearchQueries_keepsEmptyTerms(claim, entities) ==
    LET numbers == claim.lex.numbers
        primaryTerms ==
            SelectSeq(Slice(entities.people, 2) \o Slice(entities.organizations, 2)
                          \o Slice(entities.places, 1) \o Slice(numbers, 1),
                      LAMBDA term : ~hasSkipTerm(term))
        primary == IF Len(primaryTerms) > 0 THEN <<Flatten(primaryTerms)>> ELSE <<>>
        verbs == Slice(claim.lex.verbs, 2)
        nouns == SelectSeq(Slice(claim.lex.nouns, 3),
                           LAMBDA noun : length(noun) > 3 /\ ~hasSkipTerm(noun))
        secondary == IF Len(verbs) > 0 /\ Len(nouns) > 0
                     THEN <<verbs[1] \o Flatten(nouns)>> ELSE <<>>
        simplifiedClaim ==
            Slice(SelectSeq(SelectSeq(claim.lex.words, LAMBDA word : wordLength(word) > 3),
                            LAMBDA word : ~hasSkipTerm(<<word>>)), 8)
        simplified == IF length(simplifiedClaim) > 10 THEN <<simplifiedClaim>> ELSE <<>>
        queries == primary \o secondary \o simplified
        all == IF Len(queries) = 0 THEN <<GenericQuery>> ELSE queries
    IN  Slice(SelectSeq(all, LAMBDA q : length(q) > 0), 3)
buildSearchQueries(claim, entities) ==
    LET numbers == claim.lex.numbers
        \* filter(Boolean) drops the empty strings
        primaryTerms ==
            SelectSeq(SelectSeq(Slice(entities.people, 2) \o Slice(entities.organizations, 2)
                                    \o Slice(entities.places, 1) \o Slice(numbers, 1),
                                LAMBDA term : term # <<>>),
                      LAMBDA term : ~hasSkipTerm(term))
        primary == IF Len(primaryTerms) > 0 THEN <<Flatten(primaryTerms)>> ELSE <<>>
        verbs == Slice(claim.lex.verbs, 2)
        nouns == SelectSeq(Slice(claim.lex.nouns, 3),
                           LAMBDA noun : length(noun) > 3 /\ ~hasSkipTerm(noun))
        secondary == IF Len(verbs) > 0 /\ Len(nouns) > 0
                     THEN <<verbs[1] \o Flatten(nouns)>> ELSE <<>>
        simplifiedClaim ==
            Slice(SelectSeq(SelectSeq(claim.lex.words, LAMBDA word : wordLength(word) > 3),
                            LAMBDA word : ~hasSkipTerm(<<word>>)), 8)
        simplified == IF length(simplifiedClaim) > 10 THEN <<simplifiedClaim>> ELSE <<>>
        queries == primary \o secondary \o simplified
        all == IF Len(queries) = 0 THEN <<GenericQuery>> ELSE queries
    IN  Slice(SelectSeq(all, LAMBDA q : length(q) > 0), 3)

\* The 5 of [...new Set(allQueries)].slice(0, 5) (server.js 961), scaled down
\* as the other caps are
QUERY_CAP == 2

\* server.js 955-961 (and 1148-1155)
uniqueQueriesOf_uncapped(claims) ==
    Unique(Flatten([i \in 1..Len(claims) |->
                       buildSearchQueries(claims[i], claims[i].entities)]))
uniqueQueriesOf(claims) ==
    Slice(Unique(Flatten([i \in 1..Len(claims) |->
                             buildSearchQueries(claims[i], claims[i].entities)])),
          QUERY_CAP)

(***************************************************************************)
(* The search credentials (server.js 46-53, 254-289).                      *)
(***************************************************************************)
\* server.js 52: [NEWS_API_KEY, NEWS_API_KEY_1].filter(Boolean)
apiKeys ==
    (IF env.NEWS_API_KEY # Undefined THEN <<env.NEWS_API_KEY>> ELSE <<>>)
        \o (IF env.NEWS_API_KEY_1 # Undefined THEN <<env.NEWS_API_KEY_1>> ELSE <<>>)

\* server.js 254-278 for a non-empty apiKeys: the key returned, and
\* rateLimitedKeys and currentApiKeyIndex afterwards
getAvailableApiKey_noReset(rl, idx) ==
    LET n == Len(apiKeys)
        free == {i \in 0..(n - 1) : apiKeys[((idx + i) % n) + 1] \notin rl}
    IN  IF free # {}
        THEN LET i == CHOOSE j \in free : \A h \in free : j <= h
                 keyIndex == (idx + i) % n
             IN  [key |-> apiKeys[keyIndex + 1], rl |-> rl, idx |-> keyIndex]
        ELSE [key |-> apiKeys[1], rl |-> rl, idx |-> idx]
getAvailableApiKey(rl, idx) ==
    LET n == Len(apiKeys)
        rl1 == IF Cardinality(rl) = n THEN {} ELSE rl
        free == {i \in 0..(n - 1) : apiKeys[((idx + i) % n) + 1] \notin rl1}
    IN  IF free # {}
        THEN LET i == CHOOSE j \in free : \A h \in free : j <= h
                 keyIndex == (idx + i) % n
             IN  [key |-> apiKeys[keyIndex + 1], rl |-> rl1, idx |-> keyIndex]
        ELSE [key |-> apiKeys[1], rl |-> rl1, idx |-> idx]

\* server.js 283-289
markApiKeyRateLimited(rl, idx, apiKey) ==
    [rl |-> rl \cup {apiKey}, idx |-> (idx + 1) % Len(apiKeys)]

(***************************************************************************)
(* Sources.  A source is [url, publisher, publishedAt, text, long]: text   *)
(* is the evidence text built from its title, description and content      *)
(* (server.js 982-987), long whether that text has more than 30            *)
(* characters (server.js 988).                                             *)
(***************************************************************************)
Source(url, publisher, publishedAt, text, long) ==
    [url |-> url, publisher |-> publisher, publishedAt |-> publishedAt,
     text |-> text, long |-> long]

\* server.js 780-825; publishedAt is relative to now (2, 1, 3, ... days ago)
getMockSources ==
    << Source("https://example.com/economic-growth-q3", "Reuters", -2, Text("m1", ""), TRUE),
       Source("https://example.com/climate-research-2024", "BBC", -1, Text("m2", ""), TRUE),
       Source("https://example.com/tech-employment-2024", "The Guardian", -3, Text("m3", ""), TRUE),
       Source("https://example.com/healthcare-innovations", "NPR", -4, Text("m4", ""), TRUE),
       Source("https://example.com/renewable-energy-2024", "Bloomberg", -5, Text("m5", ""), TRUE),
       Source("https://example.com/edtech-performance", "The New York Times", -6, Text("m6", ""), TRUE) >>

\* url.includes('example.com') on the urls of the model
includesExampleCom(url) ==
    \E i \in 1..Len(getMockSources) : getMockSources[i].url = url

(***************************************************************************)
(* searchNewsEnhanced (server.js 294-428).                                 *)
(*                                                                         *)
(* The operators below work on a machine state s = [rec, api, nli, rl,     *)
(* idx]: the record of the request being served and the values of          *)
(* API_CACHE, NLI_CACHE, rateLimitedKeys and currentApiKeyIndex, which an  *)
(* action reads before and writes back after the code it models.  In rec,  *)
(* pc tells where searchNewsEnhanced stands: "search" (awaiting            *)
(* axios.get), "delay" (awaiting delay(200)) or "searched" (returned, with *)
(* the list in rec.sources).                                               *)
(*                                                                         *)
(* A reply of the search service is [kind |-> "ok", articles] (status 200  *)
(* with an articles array), [kind |-> "noarticles"] (status 200 without    *)
(* one), [kind |-> "429"] or [kind |-> "error"] (any other failure, a      *)
(* timeout included).                                                      *)
(***************************************************************************)
\* The queries of the requests of the model in Array.prototype.sort's default
\* (string) order: "Lagarde" < "Powell" < "Reuters" < "Treasury chief ..." <
\* "Yellen" < "news ..."
queryBefore(a, b) ==
    LET order == <<<<"Lagarde">>, <<"Powell">>, <<"Reuters">>,
                   <<"Treasury", "chief", "Yellen", "raised", "rates">>, <<"Yellen">>,
                   GenericQuery>>
    IN  indexOf(order, a) < indexOf(order, b)

\* server.js 417-425
apiCacheInsert_noEviction(cache, key, result, t) ==
    MapSet(cache, key, [result |-> result, timestamp |-> t])
apiCacheInsert(cache, key, result, t) ==
    LET room == IF Len(cache) >= MAX_CACHE_SIZE
                THEN MapDelete(cache, MapFirstKey(cache))
                ELSE cache
    IN  MapSet(room, key, [result |-> result, timestamp |-> t])

\* server.js 341-352: the articles of one reply go into the url-keyed Map
RECURSIVE mergeArticles_lastWins(_, _)
mergeArticles_lastWins(allArticles, articles) ==
    IF articles = <<>> THEN allArticles
    ELSE mergeArticles_lastWins(
             MapSet(allArticles, Head(articles).url, Head(articles)), Tail(articles))
RECURSIVE mergeArticles(_, _)
mergeArticles(allArticles, articles) ==
    IF articles = <<>> THEN allArticles
    ELSE LET article == Head(articles)
         IN  mergeArticles(
                 IF ~MapHas(allArticles, article.url)
                 THEN MapSet(allArticles, article.url, article)
                 ELSE allArticles,
                 Tail(articles))

\* server.js 403-411: the comparator puts a strictly before b
articleBefore(a, b) ==
    LET aReputable == IF isReputable(a) THEN 1 ELSE 0
        bReputable == IF isReputable(b) THEN 1 ELSE 0
    IN  IF aReputable # bReputable
        THEN bReputable - aReputable < 0
        ELSE b.publishedAt - a.publishedAt < 0

\* An operator on a machine state reads its argument many times; Only binds
\* the argument's value once: f(st) == Only({e(s) : s \in {st}}) is e(st).
Only(S) == CHOOSE v \in S : TRUE

\* searchNewsEnhanced returns `sources`
searchReturn(st, sources, how) ==
    Only({[s EXCEPT !.rec.pc = "searched", !.rec.sources = src, !.rec.servedFrom = how] :
             s \in {st}, src \in {sources}})

\* server.js 391-427: after the loop over the queries
searchFinish_noFallback(st) ==
    Only({LET articles == [i \in 1..Len(s.rec.allArticles) |-> s.rec.allArticles[i].value]
          IN  Only({searchReturn(
                        [s EXCEPT !.api = apiCacheInsert(s.api, s.rec.queries,
                                                         result, now)],
                        result, "fresh") :
                    result \in {Slice(SortBy(articles, articleBefore), 12)}}) :
          s \in {st}})
searchFinish(st) ==
    Only({LET articles == [i \in 1..Len(s.rec.allArticles) |-> s.rec.allArticles[i].value]
          IN  IF Len(articles) = 0
              THEN searchReturn(s, getMockSources, "mock")
              ELSE Only({searchReturn(
                             [s EXCEPT !.api = apiCacheInsert(s.api, s.rec.queries,
                                                              result, now)],
                             result, "fresh") :
                         result \in {Slice(SortBy(articles, articleBefore), 12)}}) :
          s \in {st}})

\* server.js 380-389: the end of one query's turn
afterQuery(st) ==
    Only({IF s.rec.qi < Len(s.rec.queries)
          THEN [s EXCEPT !.rec.pc = "delay"]
          ELSE searchFinish(s) :
          s \in {st}})

\* server.js 318-338: the head of the loop over the keys, up to axios.get
tryAttempt(st) ==
    Only({IF s.rec.attempt < Len(apiKeys) /\ ~s.rec.success
          THEN [s EXCEPT !.rl = g.rl, !.idx = g.idx,
                         !.rec.pc = "search", !.rec.key = g.key,
                         !.rec.requests =
                             Append(@, [query |-> s.rec.queries[s.rec.qi], key |-> g.key,
                                        limited |-> g.key \in g.rl,
                                        reply |-> "pending", limitedAfter |-> {}])]
          ELSE afterQuery(s) :
          s \in {st}, g \in {getAvailableApiKey(st.rl, st.idx)}})

\* server.js 313-315: the next query, after delay(200)
onDelay(st) ==
    Only({tryAttempt([s EXCEPT !.rec.qi = @ + 1, !.rec.attempt = 0,
                               !.rec.success = FALSE]) :
          s \in {st}})

\* server.js 340-377: the reply to the request in flight.  The history entry
\* of the request records the reply and rateLimitedKeys once it is handled.
onSearchReply_marksOnError(st, reply) ==
    Only({LET last == Len(s.rec.requests)
              marked == IF reply.kind \in {"429", "error"} THEN m.rl ELSE s.rl
              s0 == [s EXCEPT !.rec.requests[last].reply = reply.kind,
                              !.rec.requests[last].limitedAfter = marked]
          IN  IF reply.kind = "ok"
              THEN tryAttempt([s0 EXCEPT
                       !.rec.allArticles = mergeArticles(@, reply.articles),
                       !.rec.fetched = @ \o reply.articles,
                       !.rec.success = TRUE,
                       !.rec.attempt = @ + 1])
              ELSE IF reply.kind = "noarticles"
              THEN tryAttempt([s0 EXCEPT !.rec.attempt = @ + 1])
              ELSE IF reply.kind \in {"429", "error"}
              THEN IF Cardinality(m.rl) < Len(apiKeys)
                   THEN tryAttempt([s0 EXCEPT !.rl = m.rl, !.idx = m.idx,
                                              !.rec.attempt = @ + 1])
                   ELSE searchReturn([s0 EXCEPT !.rl = m.rl, !.idx = m.idx],
                                     getMockSources, "mock")
              ELSE afterQuery(s0) :
          s \in {st}, m \in {markApiKeyRateLimited(st.rl, st.idx, st.rec.key)}})
onSearchReply(st, reply) ==
    Only({LET last == Len(s.rec.requests)
              marked == IF reply.kind = "429" THEN m.rl ELSE s.rl
              s0 == [s EXCEPT !.rec.requests[last].reply = reply.kind,
                              !.rec.requests[last].limitedAfter = marked]
          IN  IF reply.kind = "ok"
              THEN tryAttempt([s0 EXCEPT
                       !.rec.allArticles = mergeArticles(@, reply.articles),
                       !.rec.fetched = @ \o reply.articles,
                       !.rec.success = TRUE,
                       !.rec.attempt = @ + 1])
              ELSE IF reply.kind = "noarticles"
              THEN tryAttempt([s0 EXCEPT !.rec.attempt = @ + 1])
              ELSE IF reply.kind = "429"
              THEN IF Cardinality(m.rl) < Len(apiKeys)
                   THEN tryAttempt([s0 EXCEPT !.rl = m.rl, !.idx = m.idx,
                                              !.rec.attempt = @ + 1])
                   ELSE searchReturn([s0 EXCEPT !.rl = m.rl, !.idx = m.idx],
                                     getMockSources, "mock")
              ELSE afterQuery(s0) :
          s \in {st}, m \in {markApiKeyRateLimited(st.rl, st.idx, st.rec.key)}})

\* server.js 294-315: searchNewsEnhanced(queries, 12) up to its first await
searchBegin_unsorted(st, queries) ==
    Only({LET s0 == [s EXCEPT !.rec.queries = sorted,
                              !.rec.expired =
                                  /\ MapHas(s.api, sorted)
                                  /\ now - MapGet(s.api, sorted).timestamp >= CACHE_TTL]
          IN  IF MapHas(s.api, sorted) /\ now - MapGet(s.api, sorted).timestamp < CACHE_TTL
              THEN searchReturn(s0, MapGet(s.api, sorted).result, "cache")
              ELSE LET s1 == [s0 EXCEPT !.api = MapDelete(@, sorted)]
                   IN  IF Len(apiKeys) = 0
                       THEN searchReturn(s1, getMockSources, "mock")
                       ELSE IF Len(sorted) = 0
                       THEN searchFinish(s1)
                       ELSE tryAttempt([s1 EXCEPT !.rec.qi = 1, !.rec.attempt = 0,
                                                  !.rec.success = FALSE]) :
          s \in {st}, sorted \in {queries}})
searchBegin(st, queries) ==
    Only({LET s0 == [s EXCEPT !.rec.queries = sorted,
                              !.rec.expired =
                                  /\ MapHas(s.api, sorted)
                                  /\ now - MapGet(s.api, sorted).timestamp >= CACHE_TTL]
          IN  IF MapHas(s.api, sorted) /\ now - MapGet(s.api, sorted).timestamp < CACHE_TTL
              THEN searchReturn(s0, MapGet(s.api, sorted).result, "cache")
              ELSE LET s1 == [s0 EXCEPT !.api = MapDelete(@, sorted)]
                   IN  IF Len(apiKeys) = 0
                       THEN searchReturn(s1, getMockSources, "mock")
                       ELSE IF Len(sorted) = 0
                       THEN searchFinish(s1)
                       ELSE tryAttempt([s1 EXCEPT !.rec.qi = 1, !.rec.attempt = 0,
                                                  !.rec.success = FALSE]) :
          s \in {st}, sorted \in {SortBy(queries, queryBefore)}})

(***************************************************************************)
(* Requests.  run[r] is the state of request r: its handler's position     *)
(* (pc), its local variables, what it has written to the client, and its   *)
(* performEnhancedNLI calls.  A handler runs without interruption between   *)
(* two awaits, so an action is the code from one await to the next.         *)
(***************************************************************************)
NoResponse == [sent |-> FALSE]

NewRun(mode) ==
    [mode |-> mode, pc |-> "idle", body |-> [none |-> TRUE], calls |-> <<>>,
     response |-> NoResponse, served |-> 0, startedAt |-> 0,
     \* what the streaming handler has written, and whether it called res.end()
     events |-> <<>>, ended |-> FALSE,
     \* the handler's locals
     pageType |-> "unknown", claims |-> <<>>, sources |-> <<>>,
     evidenceTexts |-> <<>>, i |-> 0, resultClaims |-> <<>>,
     \* searchNewsEnhanced's locals
     queries |-> <<>>, qi |-> 0, attempt |-> 0, success |-> FALSE,
     allArticles |-> <<>>, key |-> Undefined,
     \* history: the requests sent to the search service, the articles it
     \* returned, in order, where the returned list came from, and whether
     \* the lookup in API_CACHE found an entry that had expired
     requests |-> <<>>, fetched |-> <<>>, servedFrom |-> "none", expired |-> FALSE]

\* One performEnhancedNLI call of a request: its arguments, whether it has
\* returned, what it returned, whether it called the external capability,
\* whether that call failed and whether it read NLI_CACHE.
NliCall(evidence, claim, begun) ==
    [evidence |-> evidence, claim |-> claim, ci |-> 0, ei |-> 0,
     state |-> IF begun.done THEN "done" ELSE "pending",
     result |-> begun.result, external |-> ~begun.done, failed |-> FALSE,
     lookup |-> begun.lookup]

(***************************************************************************)
(* POST /analyze-stream (server.js 892-1122) and POST /analyze             *)
(* (server.js 1125-1235, with processClaimsInParallel, 1240-1307).  The    *)
(* two handlers run the same steps; rec.mode ("stream" or "json") tells    *)
(* them apart where they differ: the streaming handler writes events, the  *)
(* other one sends a single JSON response.                                 *)
(*                                                                         *)
(* EVIDENCE_CAP stands for the 8 of evidenceTexts.slice(0, 8) and          *)
(* sources.slice(0, 8); it and MAX_CACHE_SIZE (1000 in the code) are       *)
(* scaled down so that the cases they bound occur.                         *)
(***************************************************************************)
EVIDENCE_CAP == 2
batchSize == 2
\* The requests one connection makes, one after the other
MaxRuns == 2
MAX_CONCURRENT_API == 2
\* The window of the awaits over one claim's NLI calls (server.js 33, 1019),
\* scaled as EVIDENCE_CAP is: 3 of 8 in the code, 1 of 2 here
MAX_CONCURRENT_NLI == 1

\* res.write of one event (streaming handler only)
emit(st, event) ==
    Only({IF s.rec.mode = "stream" THEN [s EXCEPT !.rec.events = Append(@, e)] ELSE s :
          s \in {st}, e \in {event}})

Status(message) == [type |-> "status", message |-> message]

\* server.js 973-978, 1103-1108, 1219-1224: sources.slice(0, 10).map(...)
shownSources(sources) ==
    [k \in 1..Min(Len(sources), 10) |->
        [url |-> sources[k].url, publisher |-> sources[k].publisher,
         published |-> sources[k].publishedAt, title |-> sources[k].text]]

\* server.js 1114-1121 / 1227-1234: the catch block
fail_silent(st, message) ==
    Only({IF s.rec.mode = "stream"
          THEN [s EXCEPT !.rec.pc = "done", !.rec.ended = TRUE]
          ELSE [s EXCEPT !.rec.pc = "done",
                         !.rec.response = [sent |-> TRUE, status |-> 500,
                                           error |-> "Analysis failed",
                                           message |-> message]] :
          s \in {st}})
fail_resetsKeys(st, message) ==
    Only({IF s.rec.mode = "stream"
          THEN [s EXCEPT !.rl = {}, !.idx = 0,
                         !.rec.pc = "done", !.rec.ended = TRUE,
                         !.rec.events = Append(@, [type |-> "error", message |-> message])]
          ELSE [s EXCEPT !.rl = {}, !.idx = 0,
                         !.rec.pc = "done",
                         !.rec.response = [sent |-> TRUE, status |-> 500,
                                           error |-> "Analysis failed",
                                           message |-> message]] :
          s \in {st}})
fail(st, message) ==
    Only({IF s.rec.mode = "stream"
          THEN [s EXCEPT !.rec.pc = "done", !.rec.ended = TRUE,
                         !.rec.events = Append(@, [type |-> "error", message |-> message])]
          ELSE [s EXCEPT !.rec.pc = "done",
                         !.rec.response = [sent |-> TRUE, status |-> 500,
                                           error |-> "Analysis failed",
                                           message |-> message]] :
          s \in {st}})

\* server.js 926-941 / 1135-1145: no claims
completeEmpty_announced(st) ==
    Only({LET data == [page_type |-> s.rec.pageType, claims |-> <<>>, sources |-> <<>>,
                       summary |-> <<"No verifiable factual claims found in the article.">>,
                       has_credibility |-> FALSE]
          IN  IF s.rec.mode = "stream"
              THEN [s EXCEPT !.rec.pc = "done", !.rec.ended = TRUE,
                             !.rec.events = @ \o <<[type |-> "claims_extracted", count |-> 0],
                                                   [type |-> "complete", data |-> data]>>]
              ELSE [s EXCEPT !.rec.pc = "done",
                             !.rec.response = [sent |-> TRUE, status |-> 200,
                                               data |-> data]] :
          s \in {st}})
completeEmpty(st) ==
    Only({LET data == [page_type |-> s.rec.pageType, claims |-> <<>>, sources |-> <<>>,
                       summary |-> <<"No verifiable factual claims found in the article.">>,
                       has_credibility |-> FALSE]
          IN  IF s.rec.mode = "stream"
              THEN [s EXCEPT !.rec.pc = "done", !.rec.ended = TRUE,
                             !.rec.events = Append(@, [type |-> "complete", data |-> data])]
              ELSE [s EXCEPT !.rec.pc = "done",
                             !.rec.response = [sent |-> TRUE, status |-> 200,
                                               data |-> data]] :
          s \in {st}})

\* server.js 1062-1083 / 1173-1195: the consensus summary, as the list of its parts
consensusSummary(resultClaims) ==
    LET has(V) == \E k \in 1..Len(resultClaims) : resultClaims[k].consensus \in V
        parts == (IF has({"strongly_supported"})
                  THEN <<"Strongly supported by multiple sources">> ELSE <<>>)
                 \o (IF has({"supported"}) THEN <<"Generally supported">> ELSE <<>>)
                 \o (IF has({"contested"}) THEN <<"Disputed claims">> ELSE <<>>)
                 \o (IF has({"refuted", "likely_false"})
                     THEN <<"Contradicted by sources">> ELSE <<>>)
    IN  IF Len(parts) > 0 THEN parts
        ELSE <<"Unable to establish clear consensus from available sources.">>

\* server.js 1061-1112 / 1172-1225: the final result
finalize_firstBatch(st) ==
    Only({LET rc == Slice(s.rec.resultClaims, batchSize)
              data == [page_type |-> s.rec.pageType,
                       credibility_score |-> calculateCredibilityScore(rc),
                       has_credibility |-> TRUE,
                       claims |-> rc,
                       summary |-> consensusSummary(rc),
                       sources_analyzed |-> Len(s.rec.sources),
                       sources |-> shownSources(s.rec.sources)]
          IN  IF s.rec.mode = "stream"
              THEN [s EXCEPT !.rec.pc = "done", !.rec.ended = TRUE,
                             !.rec.events = Append(@, [type |-> "complete", data |-> data])]
              ELSE [s EXCEPT !.rec.pc = "done",
                             !.rec.response = [sent |-> TRUE, status |-> 200,
                                               data |-> data]] :
          s \in {st}})
finalize(st) ==
    Only({LET rc == s.rec.resultClaims
              data == [page_type |-> s.rec.pageType,
                       credibility_score |-> calculateCredibilityScore(rc),
                       has_credibility |-> TRUE,
                       claims |-> rc,
                       summary |-> consensusSummary(rc),
                       sources_analyzed |-> Len(s.rec.sources),
                       sources |-> shownSources(s.rec.sources)]
          IN  IF s.rec.mode = "stream"
              THEN [s EXCEPT !.rec.pc = "done", !.rec.ended = TRUE,
                             !.rec.events = Append(@, [type |-> "complete", data |-> data])]
              ELSE [s EXCEPT !.rec.pc = "done",
                             !.rec.response = [sent |-> TRUE, status |-> 200,
                                               data |-> data]] :
          s \in {st}})

\* Sum of a field over a list of NLI scores (the reduce of server.js 1027-1028)
RECURSIVE sumEntail(_)
sumEntail(scores) ==
    IF scores = <<>> THEN 0 ELSE Head(scores).entail + sumEntail(Tail(scores))

RECURSIVE sumContra(_)
sumContra(scores) ==
    IF scores = <<>> THEN 0 ELSE Head(scores).contra + sumContra(Tail(scores))

\* server.js 1025-1042 / 1280-1294: the result of claim ci of the request
\* record rec, from the NLI scores of its calls.  entail_score is
\* entail_sum / n, contra_score is contra_sum / n.  nliScores and failed are
\* history: the scores the result was computed from and, for each, whether
\* its external call failed.
claimResult(rec, ci) ==
    Only({LET nliScores == [k \in 1..Len(mine) |-> mine[k].result]
          IN  [text |-> rec.claims[ci].text,
               confidence_score |-> rec.claims[ci].score,
               entail_sum |-> sumEntail(nliScores),
               contra_sum |-> sumContra(nliScores),
               n |-> Len(nliScores),
               consensus |-> calculateWeightedConsensus(nliScores,
                                                        Slice(rec.sources, EVIDENCE_CAP)),
               originalIndex |-> ci - 1,
               nliScores |-> nliScores,
               failed |-> [k \in 1..Len(mine) |-> mine[k].failed]] :
          mine \in {SelectSeq(rec.calls, LAMBDA c : c.ci = ci)}})

\* server.js 1008-1015 / 1248-1270: the performEnhancedNLI calls of the
\* <<claim, evidence>> index pairs in `todo`, started one after the other;
\* every call runs up to its await
RECURSIVE beginCalls(_, _)
beginCalls(st, todo) ==
    IF todo = <<>> THEN st
    ELSE Only({LET ci == Head(todo)[1]
                   ei == Head(todo)[2]
                   evidence == s.rec.evidenceTexts[ei]
                   claim == s.rec.claims[ci].text
               IN  Only({beginCalls(
                             [s EXCEPT !.nli = begun.cache,
                                       !.rec.calls =
                                           Append(@, [NliCall(evidence, claim, begun)
                                                         EXCEPT !.ci = ci, !.ei = ei])],
                             Tail(todo)) :
                         begun \in {nliBegin(env.HF_TOKEN, s.nli, now, evidence, claim)}}) :
               s \in {st}})

\* The claims of the batch that starts after claim i
batchOf(rec) ==
    LET size == IF rec.mode = "stream" THEN batchSize ELSE MAX_CONCURRENT_API
    IN  (rec.i + 1)..Min(rec.i + size, Len(rec.claims))

\* server.js 1049-1058: the claim_result events of a batch
RECURSIVE streamResults(_, _, _)
streamResults(st, batchResults, total) ==
    IF batchResults = <<>> THEN st
    ELSE streamResults(emit(st, [type |-> "claim_result",
                                 claim |-> Head(batchResults),
                                 index |-> Head(batchResults).originalIndex,
                                 total |-> total]),
                       Tail(batchResults), total)

\* server.js 995-1059 / 1298-1304: the loop over the batches of claims.
\* startBatch is the head of the loop for the batch after claim i; settle is
\* the await of the batch: when every call of the batch has returned, the
\* results are pushed (and streamed) and the next batch starts.
RECURSIVE startBatch(_)
RECURSIVE settle(_)
startBatch(st) ==
    Only({LET n == Len(s.rec.claims)
              i == s.rec.i
              last == Min(i + Cardinality(batchOf(s.rec)), n)
              nEvidence == Min(Len(s.rec.evidenceTexts), EVIDENCE_CAP)
              todo == Flatten([b \in 1..(last - i) |->
                                  [e \in 1..nEvidence |-> <<i + b, e>>]])
              s1 == emit(s, [type |-> "status", message |-> "Analyzing claims",
                             from |-> i + 1, to |-> last, of |-> n])
          IN  IF i >= n
              THEN finalize(s)
              ELSE settle(beginCalls([s1 EXCEPT !.rec.calls = <<>>], todo)) :
          s \in {st}})

settle(st) ==
    Only({IF \E k \in 1..Len(s.rec.calls) : s.rec.calls[k].state = "pending"
          THEN [s EXCEPT !.rec.pc = "nli"]
          ELSE Only({startBatch(
                         [streamResults([s EXCEPT !.rec.resultClaims = @ \o batchResults],
                                        batchResults, Len(s.rec.claims))
                             EXCEPT !.rec.i = s.rec.i + Len(batchResults),
                                    !.rec.calls = <<>>]) :
                     batchResults \in
                         {[b \in 1..Cardinality(batchOf(s.rec)) |->
                              claimResult(s.rec, s.rec.i + b)]}}) :
          s \in {st}})

\* server.js 964-988 / 1160-1167: after searchNewsEnhanced has returned
afterSearch(st) ==
    Only({LET sources == s.rec.sources
              \* sources.some(s => s.url.includes('example.com')) reads the urls
              \* in order and stops at the first hit; a missing url throws a
              \* TypeError
              hit(k) == sources[k].url # Undefined /\ includesExampleCom(sources[k].url)
              throws == /\ s.rec.mode = "stream"
                        /\ env.NEWS_API_KEY # Undefined
                        /\ \E k \in 1..Len(sources) :
                              /\ sources[k].url = Undefined
                              /\ \A j \in 1..(k - 1) : ~hit(j)
              usingMockData == \/ env.NEWS_API_KEY = Undefined
                               \/ \E k \in 1..Len(sources) : hit(k)
              long == SelectSeq(sources, LAMBDA src : src.long)
              evidenceTexts == [k \in 1..Len(long) |-> long[k].text]
              s1 == emit(s, [type |-> "sources_found", count |-> Len(sources),
                             mock_data |-> usingMockData,
                             sources |-> shownSources(sources)])
          IN  IF throws
              THEN fail(s, "Cannot read properties of undefined (reading 'includes')")
              ELSE startBatch([s1 EXCEPT !.rec.evidenceTexts = evidenceTexts,
                                         !.rec.i = 0]) :
          s \in {st}})

\* The handler goes on when searchNewsEnhanced has returned.
resume(st) ==
    Only({IF s.rec.pc = "searched" THEN afterSearch(s) ELSE s : s \in {st}})

\* server.js 913-962 / 1132-1158: from the return of classifyPageType to the
\* first await of searchNewsEnhanced
afterClassify(st, pageType) ==
    Only({IF ~s.rec.body.hasText
          THEN fail(s, "Cannot read properties of undefined (reading 'slice')")
          ELSE Only({IF Len(claimsWithEntities) = 0
                     THEN completeEmpty(s)
                     ELSE resume(searchBegin(
                              emit(emit([s EXCEPT !.rec.claims = claimsWithEntities],
                                        [type |-> "claims_extracted",
                                         count |-> Len(claimsWithEntities)]),
                                   Status("Searching for relevant sources...")),
                              uniqueQueriesOf(claimsWithEntities))) :
                     claimsWithEntities \in {extractFactualClaims(s.rec.body.text, 10)}}) :
          s \in {emit(emit([st EXCEPT !.rec.pageType = pageType],
                           [type |-> "page_type", data |-> pageType]),
                      Status("Extracting factual claims..."))}})

\* The machine state of request r, and writing it back.
MachineState(r) ==
    [rec |-> run[r], api |-> API_CACHE, nli |-> NLI_CACHE, rl |-> rateLimitedKeys,
     idx |-> currentApiKeyIndex]

Commit(r, st) ==
    \E s \in {st} :
        /\ run' = [run EXCEPT ![r] = s.rec]
        /\ API_CACHE' = s.api
        /\ NLI_CACHE' = s.nli
        /\ rateLimitedKeys' = s.rl
        /\ currentApiKeyIndex' = s.idx
        /\ turn' = [turn EXCEPT ![r] = 1 - @]
        /\ UNCHANGED <<env, now, call, ret, tab>>

\* server.js 892-912 / 1125-1130: a request arrives; the handler runs up to
\* the await of classifyPageType
AnalyzeStart(r, mode, body) ==
    /\ run[r].pc \in {"idle", "done"}
    /\ run[r].served < MaxRuns
    /\ LET fresh == [NewRun(mode) EXCEPT !.body = body, !.served = run[r].served + 1,
                                         !.startedAt = now, !.pc = "classify"]
           s == [MachineState(r) EXCEPT !.rec = fresh]
       IN  Commit(r, emit(s, Status("Starting analysis...")))

\* server.js 1339-1373 returns, with a label or with 'unknown' after an error
\* or its 3 s timeout
ClassifyReturn(r, pageType) ==
    /\ run[r].pc = "classify"
    /\ Commit(r, afterClassify(MachineState(r), pageType))

\* axios.get settles (server.js 329-377)
SearchReply(r, reply) ==
    /\ run[r].pc = "search"
    /\ Commit(r, resume(onSearchReply(MachineState(r), reply)))

\* delay(200) elapses (server.js 386-388)
DelayElapsed(r) ==
    /\ run[r].pc = "delay"
    /\ Commit(r, resume(onDelay(MachineState(r))))

\* The external NLI capability replies, or the 5 s timer fires, for the k-th
\* call of the current batch (server.js 647-695); the batch goes on when this
\* was its last pending call
AnalyzeNliReply(r, k, reply) ==
    /\ run[r].mode \in {"stream", "json"}
    /\ run[r].pc = "nli"
    /\ k \in 1..Len(run[r].calls)
    /\ run[r].calls[k].state = "pending"
    /\ LET s == MachineState(r)
           c == s.rec.calls[k]
           ended == nliEnd(s.nli, now, c.evidence, c.claim, reply)
           s1 == [s EXCEPT !.nli = ended.cache,
                           !.rec.calls[k].state = "done",
                           !.rec.calls[k].result = ended.result,
                           !.rec.calls[k].failed = ended.failed]
       IN  Commit(r, settle(s1))

\* Date.now() advances.
MaxTime == 3
Tick ==
    /\ now < MaxTime
    /\ now' = now + 1
    /\ UNCHANGED <<env, API_CACHE, NLI_CACHE, currentApiKeyIndex, rateLimitedKeys,
                   run, turn, call, ret, tab>>

(***************************************************************************)
(* Spec: analysis requests against a search service and an NLI capability  *)
(* that may answer anything, under every configuration of the credentials. *)
(* The requests of Spec are served within one cache lifetime: Tick is not  *)
(* a step of Spec.                                                         *)
(***************************************************************************)
\* process.env: no search key, the primary one only, the backup one only, two
\* keys, and the same key under both names, all without an HF token; and
\* with an HF token, the configuration without a search key.
Env(key, key1, token) ==
    [NEWS_API_KEY |-> key, NEWS_API_KEY_1 |-> key1, HF_TOKEN |-> token]

EnvInputs ==
    {Env(Undefined, Undefined, FALSE), Env(Undefined, Undefined, TRUE),
     Env("k1", Undefined, FALSE), Env(Undefined, "k2", FALSE), Env("k1", "k2", FALSE), Env("k1", "k1", FALSE)}

\* What the language library finds in a sentence
Entities(people, organizations, places) ==
    [people |-> people, organizations |-> organizations, places |-> places]

Lex(numbers, verbs, nouns, words) ==
    [numbers |-> numbers, verbs |-> verbs, nouns |-> nouns, words |-> words]

\* Sentences: one dropped by the content filters, one scored just below 0.4
\* (ScoresOfSentences), and three that become claims.  Sentence1 gives the queries "Yellen" and
\* "Treasury chief Yellen raised rates", the other two the latter only.
NavSentence ==
    Sentence(Text("c3", ""), FALSE, 90, Entities(<<>>, <<>>, <<>>),
             Lex(<<>>, <<>>, <<>>, <<"click", "here">>))
WeakSentence ==
    Sentence(Text("c2", ""), TRUE, 39, Entities(<<<<"Yellen">>>>, <<>>, <<>>),
             Lex(<<>>, <<>>, <<>>, <<"Yellen">>))
Sentence1 ==
    Sentence(Text("c1", ""), TRUE, 70, Entities(<<<<"Yellen">>>>, <<>>, <<>>),
             Lex(<<>>, <<>>, <<>>, <<"Treasury", "chief", "Yellen", "raised", "rates">>))
Sentence2 ==
    Sentence(Text("c2", ""), TRUE, 90, Entities(<<>>, <<>>, <<>>),
             Lex(<<>>, <<>>, <<>>,
                 <<"Treasury", "chief", "Yellen", "raised", "rates", "in", "May">>))
Sentence3 ==
    Sentence(Text("c3", ""), TRUE, 50, Entities(<<>>, <<>>, <<>>),
             Lex(<<>>, <<>>, <<>>,
                 <<"The", "Treasury", "chief", "Yellen", "raised", "rates">>))

\* Request bodies: without text, with no qualifying sentence, and with one,
\* two and three (two batches) claims
Bodies ==
    {[hasText |-> FALSE, text |-> <<>>]}
        \cup {[hasText |-> TRUE, text |-> t] :
                 t \in {<<NavSentence, WeakSentence>>,
                        <<NavSentence, Sentence1>>,
                        <<Sentence1, Sentence2>>,
                        <<Sentence1, Sentence2, Sentence3>>}}

PageTypes == {"unknown", "news article"}

\* Articles: two different ones under the same url, one whose evidence text
\* is too short, one without a url
ArticleA == Source("u1", "Reuters", 5, Text("e1", ""), TRUE)
ArticleA2 == Source("u1", "Daily Blog", 7, Text("e2", ""), TRUE)
ArticleB == Source("u2", "Daily Blog", 6, Text("e2", ""), TRUE)
ArticleShort == Source("u3", "BBC", 4, Text("e1", "s"), FALSE)
ArticleNoUrl == Source(Undefined, "Daily Blog", 3, Text("e2", ""), TRUE)

SearchReplies ==
    {[kind |-> "429"], [kind |-> "error"], [kind |-> "noarticles"]}
        \cup {[kind |-> "ok", articles |-> a] :
                 a \in {<<>>, <<ArticleB, ArticleA>>, <<ArticleA2, ArticleShort>>,
                        <<ArticleNoUrl, ArticleA, ArticleA2>>}}

\* What the NLI capability does to one call: fails, times out, answers with
\* valid scores, answers with scores that do not add up
NliReplies ==
    {[kind |-> "error"], [kind |-> "timeout"],
     [kind |-> "result", labels |-> <<"supports", "contradicts", "unrelated">>,
      scores |-> <<80, 15, 5>>],
     [kind |-> "result", labels |-> <<"supports", "contradicts", "unrelated">>,
      scores |-> <<10, 10, 10>>]}

Init ==
    /\ env \in EnvInputs
    /\ now = 0
    /\ API_CACHE = <<>>
    /\ NLI_CACHE = <<>>
    /\ currentApiKeyIndex = 0
    /\ rateLimitedKeys = {}
    /\ run = [r \in {"r1"} |-> NewRun("stream")]
    /\ turn = [r \in {"r1"} |-> 0]
    /\ call = NotCalled
    /\ ret = NoReturn
    /\ tab = NoTab

Next ==
    \/ \E r \in DOMAIN run, mode \in {"stream", "json"}, body \in Bodies :
          AnalyzeStart(r, mode, body)
    \/ \E r \in DOMAIN run, pageType \in PageTypes : ClassifyReturn(r, pageType)
    \/ \E r \in DOMAIN run, reply \in SearchReplies : SearchReply(r, reply)
    \/ \E r \in DOMAIN run : DelayElapsed(r)
    \/ \E r \in DOMAIN run, k \in 1..(batchSize * EVIDENCE_CAP), reply \in NliReplies :
          AnalyzeNliReply(r, k, reply)

Spec == Init /\ [][Next]_vars

\* The handler of request r is suspended at an await.
Waiting(r) == run[r].pc \in {"classify", "search", "delay", "nli"}

\* The handler of request r is resumed.  Whatever a suspended handler awaits,
\* one of ClassifyReturn, SearchReply, DelayElapsed and AnalyzeNliReply can
\* happen (pc is their only guard, but for the pending call AnalyzeNliReply
\* answers, and pc = "nli" is set only with a call pending); each of them
\* flips turn[r], and no other step happens while the handler is suspended.
Resumed(r) == Waiting(r) /\ turn' = [turn EXCEPT ![r] = 1 - @]

\* Every external call of a request eventually returns, fails or times out:
\* classifyPageType gives up after 3 s (server.js 1344-1353), axios.get after
\* 8 s (server.js 337), the NLI call after 5 s (server.js 647-654), and
\* delay(200) elapses; so a suspended handler is resumed in the end.
FairSpec == Spec /\ \A r \in {"r1"} : WF_turn(Resumed(r))

(***************************************************************************)
(* POST /test-scoring (server.js 1376-1398).                               *)
(***************************************************************************)
EmptyText == Text("", "")

\* server.js 1386-1394: the response once performEnhancedNLI has returned
testScoringResponse(evidence, claim, hfScore) ==
    [sent |-> TRUE, status |-> 200,
     hf_scores |-> hfScore,
     fallback_scores |-> fallbackScoring(evidence, claim),
     consensus_single |->
         calculateWeightedConsensus(<<hfScore>>, <<[publisher |-> "Test Source"]>>)]

\* server.js 1376-1385: the handler up to the await of performEnhancedNLI
TestScoringStart(r, evidence, claim) ==
    /\ run[r].mode = "test"
    /\ run[r].pc \in {"idle", "done"}
    /\ LET fresh == [NewRun("test") EXCEPT
                         !.body = [evidence |-> evidence, claim |-> claim],
                         !.served = run[r].served + 1]
       IN  IF evidence = EmptyText \/ claim = EmptyText
           THEN /\ run' = [run EXCEPT ![r] =
                              [fresh EXCEPT !.pc = "done",
                                            !.response = [sent |-> TRUE, status |-> 400]]]
                /\ UNCHANGED NLI_CACHE
           ELSE LET begun == nliBegin(env.HF_TOKEN, NLI_CACHE, now, evidence, claim)
                    c == NliCall(evidence, claim, begun)
                IN  /\ NLI_CACHE' = begun.cache
                    /\ run' = [run EXCEPT ![r] =
                                  IF begun.done
                                  THEN [fresh EXCEPT
                                            !.pc = "done", !.calls = <<c>>,
                                            !.response = testScoringResponse(
                                                             evidence, claim, begun.result)]
                                  ELSE [fresh EXCEPT !.pc = "nli", !.calls = <<c>>]]
    /\ turn' = [turn EXCEPT ![r] = 1 - @]
    /\ UNCHANGED <<env, now, API_CACHE, currentApiKeyIndex, rateLimitedKeys, call, ret, tab>>

\* server.js 647-695, then 1386-1394: the external capability replies, or the
\* timer fires, for the pending call of a /test-scoring request
TestScoringNliReply(r, reply) ==
    /\ run[r].mode = "test"
    /\ run[r].pc = "nli"
    /\ LET c == run[r].calls[1]
           ended == nliEnd(NLI_CACHE, now, c.evidence, c.claim, reply)
       IN  /\ NLI_CACHE' = ended.cache
           /\ run' = [run EXCEPT ![r] =
                         [@ EXCEPT !.pc = "done",
                                   !.calls = <<[c EXCEPT !.state = "done",
                                                         !.result = ended.result,
                                                         !.failed = ended.failed]>>,
                                   !.response = testScoringResponse(
                                                    c.evidence, c.claim, ended.result)]]
    /\ turn' = [turn EXCEPT ![r] = 1 - @]
    /\ UNCHANGED <<env, now, API_CACHE, currentApiKeyIndex, rateLimitedKeys, call, ret, tab>>

(***************************************************************************)
(* SpecNLI: /test-scoring requests, one after the other, against an        *)
(* external capability that may answer anything.                           *)
(***************************************************************************)
MaxTestRequests == 2

ReplyLabels ==
    {<<"supports", "contradicts", "unrelated">>,
     <<"unrelated", "supports", "contradicts">>,
     <<"supports", "contradicts">>,
     <<>>}

ReplyScores ==
    {<<80, 15, 5>>, <<130, -40, 10>>, <<60, 60, 60>>, <<10, 10, 10>>,
     <<50, NaN, 50>>, <<90, 10>>}

AnyNliReply ==
    {[kind |-> "error"], [kind |-> "timeout"]}
        \cup {[kind |-> "result", labels |-> l, scores |-> sc] :
                 l \in ReplyLabels, sc \in ReplyScores}

TestEvidence == {EmptyText, Text("e1", ""), Text("e1", "s"), Text("e2", "")}
TestClaims == {EmptyText, Text("c1", "")}

InitNLI ==
    /\ env \in [NEWS_API_KEY : {Undefined}, NEWS_API_KEY_1 : {Undefined}, HF_TOKEN : BOOLEAN]
    /\ now = 0
    /\ API_CACHE = <<>>
    /\ NLI_CACHE = <<>>
    /\ currentApiKeyIndex = 0
    /\ rateLimitedKeys = {}
    /\ run = [r \in {"t1"} |-> NewRun("test")]
    /\ turn = [r \in {"t1"} |-> 0]
    /\ call = NotCalled
    /\ ret = NoReturn
    /\ tab = NoTab

NextNLI ==
    \/ \E r \in DOMAIN run, e \in TestEvidence, c \in TestClaims :
          run[r].served < MaxTestRequests /\ TestScoringStart(r, e, c)
    \/ \E r \in DOMAIN run, reply \in AnyNliReply : TestScoringNliReply(r, reply)
    \/ Tick

SpecNLI == InitNLI /\ [][NextNLI]_vars

(***************************************************************************)
(* Claims about performEnhancedNLI, under SpecNLI.                         *)
(***************************************************************************)
\* The performEnhancedNLI calls that have returned
ReturnedCalls ==
    {c \in UNION {{run[r].calls[i] : i \in 1..Len(run[r].calls)} : r \in DOMAIN run} :
        c.state = "done"}

\* C5: whatever the external capability replies, the result performEnhancedNLI
\* returns has entail, contra and neutral within [0,1].
C5_ResultInUnitRange ==
    \A c \in ReturnedCalls :
        /\ c.result.entail \in 0..100
        /\ c.result.contra \in 0..100
        /\ c.result.neutral \in 0..100

\* C6: without an HF token performEnhancedNLI calls nothing external, neither
\* reads nor writes NLI_CACHE, and returns the fallback scorer's result.
C6_DisabledIsFallbackOnly ==
    ~env.HF_TOKEN =>
        /\ NLI_CACHE = <<>>
        /\ \A r \in DOMAIN run : \A i \in 1..Len(run[r].calls) :
              LET c == run[r].calls[i]
              IN  /\ c.state = "done"
                  /\ ~c.external
                  /\ ~c.lookup
                  /\ c.result = fallbackScoring(c.evidence, c.claim)

\* A /test-scoring request answered without a token, with a fallback result
\* that is not the "unrelated" default.
C6_Witness ==
    /\ ~env.HF_TOKEN
    /\ run["t1"].pc = "done"
    /\ run["t1"].response.status = 200
    /\ Len(run["t1"].calls) = 1
    /\ run["t1"].response.hf_scores = run["t1"].response.fallback_scores
    /\ run["t1"].response.hf_scores.entail = 60

(***************************************************************************)
(* Direct calls of the scoring functions: the arguments are drawn by the   *)
(* initial state, one action applies the function.                         *)
(***************************************************************************)
MaxScores == 3
MaxCredClaims == 2


\* Nothing is being served and nothing is cached.
PipelineIdle ==
    /\ env = [NEWS_API_KEY |-> Undefined, NEWS_API_KEY_1 |-> Undefined, HF_TOKEN |-> FALSE]
    /\ now = 0
    /\ API_CACHE = <<>>
    /\ NLI_CACHE = <<>>
    /\ currentApiKeyIndex = 0
    /\ rateLimitedKeys = {}
    /\ run = <<>>
    /\ turn = <<>>

Score(e, c) == [entail |-> e, contra |-> c, neutral |-> 100 - e - c]
ZeroScore == [entail |-> 0, contra |-> 0, neutral |-> 0]

\* The scores handed to calculateWeightedConsensus: null, the all-zero score,
\* scores on both sides of every threshold, and one score outside [0,1] as
\* performEnhancedNLI can return it.
ScoreInputs ==
    {NullScore, ZeroScore, Score(100, 0), Score(40, 5), Score(5, 40),
     Score(18, 12), Score(42, 30), Score(30, 42), Score(11, 0), Score(-20, 0)}

SourceInputs == {[publisher |-> "Reuters"], [publisher |-> "Daily Blog"]}

Verdicts ==
    {"strongly_supported", "supported", "weakly_supported", "contested",
     "insufficient_evidence", "weakly_refuted", "likely_false", "refuted"}

\* extractFactualClaims keeps a claim only with score > 0.4 (server.js 79)
ConfidenceInputs == {50, 150}

\* The argument lists drawn for calculateWeightedConsensus
ConsensusCall(c) ==
    \E k \in 0..MaxScores :
        \E sc \in [1..k -> ScoreInputs], so \in [1..k -> SourceInputs] :
            c = [fn |-> "calculateWeightedConsensus", scores |-> sc, sources |-> so]

\* The argument lists drawn for calculateCredibilityScore
CredibilityCall(c) ==
    \E k \in 0..MaxCredClaims :
        \E cl \in [1..k -> [consensus : Verdicts, confidence_score : ConfidenceInputs]] :
            c = [fn |-> "calculateCredibilityScore", claims |-> cl]

\* The text features drawn for fallbackScoring's rule table: the number of
\* significant words of the claim (FeatureTotals, each a divisor of 70), how
\* many of them the evidence holds, and the three pattern tests
FeatureTotals == {0, 1, 2, 5, 7, 10}

FallbackCall(c) ==
    \E t \in FeatureTotals :
        \E m \in 0..t, nm \in BOOLEAN, hs \in BOOLEAN, hc \in BOOLEAN :
            c = [fn |-> "fallbackScoring",
                 features |-> [matchCount |-> m, totalSignificantWords |-> t,
                               numberMatch |-> nm, hasSupport |-> hs,
                               hasContradiction |-> hc]]

\* Scores of scoreFactualClaim (server.js 118-168), in hundredths.  The
\* function adds 2.0, 1.8, 1.5, 1.2, 1.0, 0.5 and up to five times 0.3 and
\* subtracts 0.3 per vague term, in doubles: the sums that are 0.4 in exact
\* arithmetic (1.0 - 0.3 - 0.3, with 0.3 per proper noun added before) all
\* come out as 0.39999999999999997 or less, and no sum is the double 0.4.
\* 39 stands for those scores, 41 for the least score above 0.4.
ScoresOfSentences == {20, 39, 41, 70}

MaxSentences == 3

\* The texts drawn for extractFactualClaims: every text of up to MaxSentences
\* sentences, and two of seventeen sentences; a sentence's text is its
\* position in the page
ExtractCall(c) ==
    \E k \in {1, 2, 10, 20} :
        \/ \E n \in 0..MaxSentences :
               \E sc \in [1..n -> ScoresOfSentences], ps \in [1..n -> BOOLEAN] :
                   c = [fn |-> "extractFactualClaims", k |-> k,
                        text |-> [i \in 1..n |->
                                     Sentence(i, ps[i], sc[i], Entities(<<>>, <<>>, <<>>),
                                              Lex(<<>>, <<>>, <<>>, <<>>))]]
        \/ \E low \in {39, 41} :
               c = [fn |-> "extractFactualClaims", k |-> k,
                    text |-> [i \in 1..17 |->
                                 Sentence(i, i # 3, IF i = 5 THEN low ELSE 41 + ((i * 7) % 10),
                                          Entities(<<>>, <<>>, <<>>),
                                          Lex(<<>>, <<>>, <<>>, <<>>))]]

InitScoring ==
    /\ PipelineIdle
    /\ ret = NoReturn
    /\ tab = NoTab
    /\ \/ ConsensusCall(call)
       \/ CredibilityCall(call)
       \/ FallbackCall(call)
       \/ ExtractCall(call)

ApplyConsensus ==
    /\ call.fn = "calculateWeightedConsensus"
    /\ ~ret.done
    /\ ret' = Returned(calculateWeightedConsensus(call.scores, call.sources))
    /\ UNCHANGED <<shared, run, turn, call, tab>>

ApplyCredibility ==
    /\ call.fn = "calculateCredibilityScore"
    /\ ~ret.done
    /\ ret' = Returned(calculateCredibilityScore(call.claims))
    /\ UNCHANGED <<shared, run, turn, call, tab>>

ApplyFallback ==
    /\ call.fn = "fallbackScoring"
    /\ ~ret.done
    /\ ret' = Returned(fallbackScores(call.features))
    /\ UNCHANGED <<shared, run, turn, call, tab>>

ApplyExtract ==
    /\ call.fn = "extractFactualClaims"
    /\ ~ret.done
    /\ ret' = Returned(extractFactualClaims(call.text, call.k))
    /\ UNCHANGED <<shared, run, turn, call, tab>>

NextScoring == ApplyConsensus \/ ApplyCredibility \/ ApplyFallback \/ ApplyExtract

SpecScoring == InitScoring /\ [][NextScoring]_vars

(***************************************************************************)
(* Claims about the scoring functions, under SpecScoring.                  *)
(***************************************************************************)
ConsensusReturned == call.fn = "calculateWeightedConsensus" /\ ret.done
CredibilityReturned == call.fn = "calculateCredibilityScore" /\ ret.done

\* The positions of the valid scores: non-null and not all-zero.
ValidPositions(scores) ==
    {i \in 1..Len(scores) :
        /\ scores[i] # NullScore
        /\ ~(scores[i].entail = 0 /\ scores[i].contra = 0 /\ scores[i].neutral = 0)}

\* C7: with fewer than 2 valid scores calculateWeightedConsensus returns
\* insufficient_evidence, whatever the scores and the publishers.
C7_FewerThanTwoValid ==
    (ConsensusReturned /\ Cardinality(ValidPositions(call.scores)) < 2)
        => ret.value = "insufficient_evidence"

\* One valid score of the largest magnitude from a reputable publisher, next
\* to an invalid one.
C7_Witness ==
    /\ ConsensusReturned
    /\ Len(call.scores) = 2
    /\ call.scores[1] = Score(100, 0)
    /\ call.sources[1].publisher = "Reuters"
    /\ call.scores[2] = ZeroScore
    /\ ret.value = "insufficient_evidence"

\* The reputability-weighted sums over a set of positions, weights doubled.
RECURSIVE WeightedSum(_, _, _, _)
WeightedSum(scores, sources, field, P) ==
    IF P = {}
    THEN 0
    ELSE LET i == CHOOSE j \in P : TRUE
             w == IF sources[i].publisher \in
                        {"Reuters", "AP News", "Bloomberg", "BBC", "CNN",
                         "The Guardian", "NPR", "The New York Times",
                         "The Washington Post"}
                  THEN 3 ELSE 2
             x == IF field = "entail" THEN scores[i].entail
                  ELSE IF field = "contra" THEN scores[i].contra
                  ELSE 1
         IN  x * w + WeightedSum(scores, sources, field, P \ {i})

\* The ordered rule list as the specification words it, on the means e / t and
\* c / t hundredths: "one side at least 1.5 times the other".
RuleListAsWorded(e, c, t) ==
    CASE e >= 35 * t /\ c <= 15 * t -> "strongly_supported"
      [] ~(e >= 35 * t /\ c <= 15 * t) /\ e >= 25 * t /\ c <= 20 * t -> "supported"
      [] OTHER ->
            IF c >= 35 * t /\ e <= 15 * t THEN "refuted"
            ELSE IF c >= 25 * t /\ e <= 20 * t THEN "likely_false"
            ELSE IF 2 * e >= 3 * c /\ e > 15 * t THEN "supported"
            ELSE IF 2 * c >= 3 * e /\ c > 15 * t THEN "likely_false"
            ELSE IF Abs(e - c) <= 10 * t THEN "contested"
            ELSE IF e > c /\ e > 10 * t THEN "weakly_supported"
            ELSE IF c > e /\ c > 10 * t THEN "weakly_refuted"
            ELSE "insufficient_evidence"

\* The same list with "one side more than 1.5 times the other".
RuleListStrictRatio(e, c, t) ==
    CASE e >= 35 * t /\ c <= 15 * t -> "strongly_supported"
      [] ~(e >= 35 * t /\ c <= 15 * t) /\ e >= 25 * t /\ c <= 20 * t -> "supported"
      [] OTHER ->
            IF c >= 35 * t /\ e <= 15 * t THEN "refuted"
            ELSE IF c >= 25 * t /\ e <= 20 * t THEN "likely_false"
            ELSE IF 2 * e > 3 * c /\ e > 15 * t THEN "supported"
            ELSE IF 2 * c > 3 * e /\ c > 15 * t THEN "likely_false"
            ELSE IF Abs(e - c) <= 10 * t THEN "contested"
            ELSE IF e > c /\ e > 10 * t THEN "weakly_supported"
            ELSE IF c > e /\ c > 10 * t THEN "weakly_refuted"
            ELSE "insufficient_evidence"

MeanEntail == WeightedSum(call.scores, call.sources, "entail", ValidPositions(call.scores))
MeanContra == WeightedSum(call.scores, call.sources, "contra", ValidPositions(call.scores))
MeanWeight == WeightedSum(call.scores, call.sources, "weight", ValidPositions(call.scores))

\* C8 as stated: with at least 2 valid scores the verdict is the first matching
\* rule of the list, the ratio rule reading "at least 1.5 times".
C8_AsStated ==
    (ConsensusReturned /\ Cardinality(ValidPositions(call.scores)) >= 2)
        => ret.value = RuleListAsWorded(MeanEntail, MeanContra, MeanWeight)

\* C8 (amended): with at least 2 valid scores the verdict is a function of the
\* reputability-weighted means alone and is the first matching rule of the
\* list, the ratio rule reading "more than 1.5 times the other".
C8_FirstMatchingRule ==
    (ConsensusReturned /\ Cardinality(ValidPositions(call.scores)) >= 2)
        => ret.value = RuleListStrictRatio(MeanEntail, MeanContra, MeanWeight)

\* Means 0.18 and 0.12: one side exactly 1.5 times the other; the code answers
\* contested.
C8_Witness ==
    /\ ConsensusReturned
    /\ Cardinality(ValidPositions(call.scores)) >= 2
    /\ 2 * MeanEntail = 3 * MeanContra
    /\ MeanEntail = 18 * MeanWeight
    /\ ret.value = "contested"

\* The fixed verdict-to-score mapping of the specification, in hundredths.
VerdictScore ==
    [v \in Verdicts |->
        CASE v = "strongly_supported" -> 100
          [] v = "supported" -> 80
          [] v = "weakly_supported" -> 65
          [] v = "contested" -> 50
          [] v = "insufficient_evidence" -> 50
          [] v = "weakly_refuted" -> 35
          [] v = "likely_false" -> 30
          [] v = "refuted" -> 10]

RECURSIVE MappedSum(_, _)
MappedSum(claims, P) ==
    IF P = {}
    THEN 0
    ELSE LET i == CHOOSE j \in P : TRUE
         IN  VerdictScore[claims[i].consensus] * claims[i].confidence_score
                 + MappedSum(claims, P \ {i})

RECURSIVE ConfidenceSum(_, _)
ConfidenceSum(claims, P) ==
    IF P = {}
    THEN 0
    ELSE LET i == CHOOSE j \in P : TRUE
         IN  claims[i].confidence_score + ConfidenceSum(claims, P \ {i})

\* C9: calculateCredibilityScore returns the confidence-weighted mean of the
\* mapped verdict scores, 0.5 for no claims, and 0.55 for two claims of equal
\* confidence with verdicts strongly_supported and refuted.
C9_CredibilityIsWeightedMean ==
    CredibilityReturned =>
        LET claims == call.claims
            all == 1..Len(claims)
        IN  /\ Len(claims) = 0 => ret.value.num = 50 * ret.value.den
            /\ Len(claims) > 0 =>
                  ret.value.num * ConfidenceSum(claims, all)
                      = MappedSum(claims, all) * ret.value.den
            /\ ( /\ Len(claims) = 2
                 /\ claims[1].consensus = "strongly_supported"
                 /\ claims[2].consensus = "refuted"
                 /\ claims[1].confidence_score = claims[2].confidence_score )
                  => ret.value.num = 55 * ret.value.den

C9_Witness ==
    /\ CredibilityReturned
    /\ Len(call.claims) = 2
    /\ call.claims[1].consensus = "strongly_supported"
    /\ call.claims[2].consensus = "refuted"
    /\ call.claims[1].confidence_score = call.claims[2].confidence_score
    /\ ret.value.num = 55 * ret.value.den

(***************************************************************************)
(* Claims about the analysis requests, under Spec and FairSpec.            *)
(***************************************************************************)
StreamRuns == {r \in DOMAIN run : run[r].mode = "stream" /\ run[r].pc # "idle"}

TerminalEvents(r) ==
    {i \in 1..Len(run[r].events) : run[r].events[i].type \in {"complete", "error"}}

EventTypes(r) == {run[r].events[i].type : i \in 1..Len(run[r].events)}

LastEvent(r) == run[r].events[Len(run[r].events)]

\* The stream holds at most one terminal event, nothing after it, and the
\* handler has ended the stream exactly when the terminal event is written
OneTerminalEventLast(r) ==
    /\ Cardinality(TerminalEvents(r)) <= 1
    /\ TerminalEvents(r) \subseteq {Len(run[r].events)}
    /\ run[r].ended <=> TerminalEvents(r) # {}
    /\ run[r].ended <=> run[r].pc = "done"

\* C1: every streaming run writes exactly one terminal event (complete or
\* error), writes nothing after it, and, every external call being answered
\* in the end, does write it.
C1_OneTerminalEventEventually ==
    /\ [](\A r \in StreamRuns : OneTerminalEventLast(r))
    /\ \A r \in {"r1"} :
          (run[r].mode = "stream" /\ run[r].pc \notin {"idle", "done"})
              ~> (run[r].pc = "done" /\ Cardinality(TerminalEvents(r)) = 1)

\* A streaming run of three claims that went through both batches and ended
\* with complete
C1_Witness ==
    /\ run["r1"].mode = "stream"
    /\ run["r1"].pc = "done"
    /\ Len(run["r1"].resultClaims) = 3
    /\ "claim_result" \in EventTypes("r1")
    /\ LastEvent("r1").type = "complete"

\* The run has answered its client with a result, not with a failure
EndedComplete(r) ==
    IF run[r].mode = "stream"
    THEN LastEvent(r).type = "complete" /\ "error" \notin EventTypes(r)
    ELSE run[r].response.sent /\ run[r].response.status = 200

AllCredentials == {apiKeys[j] : j \in 1..Len(apiKeys)}

\* C2: once a 429 has left every credential marked rate-limited, the search
\* sends no further request and returns exactly the synthetic sources, and
\* the run ends with complete.
C2_ExhaustedServesSynthetic ==
    \A r \in DOMAIN run : \A i \in 1..Len(run[r].requests) :
        LET request == run[r].requests[i]
        IN  (request.reply = "429" /\ AllCredentials \subseteq request.limitedAfter)
                => /\ i = Len(run[r].requests)
                   /\ run[r].pc \notin {"search", "delay"}
                   /\ run[r].servedFrom = "mock"
                   /\ run[r].sources = getMockSources
                   /\ run[r].pc = "done" => EndedComplete(r)

\* C3: a run whose request carries a text never ends with an error event or
\* a failed response, whatever the search service and the NLI capability do.
C3_CapabilityFailuresNeverSurface ==
    \A r \in DOMAIN run :
        (run[r].pc = "done" /\ run[r].body.hasText) => EndedComplete(r)

NoClaims(r) ==
    /\ run[r].pc # "idle"
    /\ run[r].body.hasText
    /\ extractFactualClaims(run[r].body.text, 10) = <<>>

ResultData(r) ==
    IF run[r].mode = "stream" THEN LastEvent(r).data ELSE run[r].response.data

\* C4: a run whose text yields no claim sends no search request, writes no
\* claims_extracted, sources_found or claim_result event, and ends with a
\* complete result with no claims, no sources and the no-claims summary.
C4_NoClaimsCompletesEmpty ==
    \A r \in DOMAIN run :
        NoClaims(r) =>
            /\ run[r].requests = <<>>
            /\ run[r].servedFrom = "none"
            /\ EventTypes(r) \cap {"claims_extracted", "sources_found", "claim_result",
                                   "error"} = {}
            /\ run[r].pc = "done" =>
                  /\ EndedComplete(r)
                  /\ ResultData(r).claims = <<>>
                  /\ ResultData(r).sources = <<>>
                  /\ ResultData(r).summary
                        = <<"No verifiable factual claims found in the article.">>

\* A streaming run over a text with sentences, none of which qualifies, that
\* has ended
C4_Witness ==
    /\ NoClaims("r1")
    /\ run["r1"].body.text # <<>>
    /\ run["r1"].mode = "stream"
    /\ run["r1"].pc = "done"
    /\ LastEvent("r1").type = "complete"

NoDuplicateUrl(sources) ==
    \A i, j \in 1..Len(sources) : sources[i].url = sources[j].url => i = j

\* The first article with this url among those the search service returned
FirstSeen(fetched, url) ==
    fetched[CHOOSE i \in 1..Len(fetched) :
                /\ fetched[i].url = url
                /\ \A j \in 1..(i - 1) : fetched[j].url # url]

\* C10: a list returned by searchNewsEnhanced, fresh, cached or synthetic,
\* holds no url twice, and a fresh list holds for each url the first article
\* the search service returned under it.
C10_NoDuplicateUrlFirstSeenWins ==
    /\ \A i \in 1..Len(API_CACHE) : NoDuplicateUrl(API_CACHE[i].value.result)
    /\ \A r \in DOMAIN run :
          run[r].servedFrom # "none" =>
              /\ NoDuplicateUrl(run[r].sources)
              /\ run[r].servedFrom = "fresh" =>
                    \A i \in 1..Len(run[r].sources) :
                        /\ \E j \in 1..Len(run[r].fetched) :
                              run[r].fetched[j].url = run[r].sources[i].url
                        /\ run[r].sources[i]
                              = FirstSeen(run[r].fetched, run[r].sources[i].url)

\* Two queries answered with different articles under the same url, and the
\* fresh list returned
C10_Witness ==
    /\ run["r1"].servedFrom = "fresh"
    /\ Len(run["r1"].requests) >= 2
    /\ \E i, j \in 1..Len(run["r1"].fetched) :
          /\ i < j
          /\ run["r1"].fetched[i] = ArticleA
          /\ run["r1"].fetched[j] = ArticleA2
          /\ \A k \in 1..(i - 1) : run["r1"].fetched[k].url # "u1"
    /\ \E i \in 1..Len(run["r1"].sources) : run["r1"].sources[i] = ArticleA

(***************************************************************************)
(* Claims about the scoring of the claims of a request, under Spec.        *)
(***************************************************************************)
\* The performEnhancedNLI calls of claim ci of request r that have not returned
InFlight(r, ci) ==
    {k \in 1..Len(run[r].calls) :
        run[r].calls[k].ci = ci /\ run[r].calls[k].state = "pending"}

\* Claim ci of the batch being scored has all its NLI results
Scored(r, ci) ==
    /\ run[r].pc = "nli"
    /\ ci \in batchOf(run[r])
    /\ InFlight(r, ci) = {}

ClaimResultWritten(r, ci) ==
    \E j \in 1..Len(run[r].events) :
        /\ run[r].events[j].type = "claim_result"
        /\ run[r].events[j].index = ci - 1

\* C12: in a streaming run the claim_result of a claim is written once that
\* claim's own NLI calls have returned, also while the other claim of its
\* batch still waits for one.
C12_ClaimResultAsSoonAsScored ==
    \A r \in StreamRuns : \A ci \in 1..Len(run[r].claims) :
        Scored(r, ci) => ClaimResultWritten(r, ci)

\* C13: at every moment at most MAX_CONCURRENT_NLI performEnhancedNLI calls
\* of one claim are in flight, in /analyze-stream and in /analyze.
C13_BoundedNliCallsInFlight ==
    \A r \in DOMAIN run : \A ci \in 1..Len(run[r].claims) :
        Cardinality(InFlight(r, ci)) <= MAX_CONCURRENT_NLI

\* The sources_found events of a stream
SourcesFound(r) ==
    {j \in 1..Len(run[r].events) : run[r].events[j].type = "sources_found"}

\* Whether what request r has sent so far lists sources, and whether it
\* carries a fallback indicator that is set
DeliversSources(r) ==
    IF run[r].mode = "stream"
    THEN \E j \in SourcesFound(r) : run[r].events[j].sources # <<>>
    ELSE /\ run[r].response.sent
         /\ run[r].response.status = 200
         /\ run[r].response.data.sources # <<>>

FlagsFallback(r) ==
    IF run[r].mode = "stream"
    THEN \E j \in SourcesFound(r) : run[r].events[j].mock_data
    ELSE \E f \in {"mock_data", "usedFallback"} :
             /\ f \in DOMAIN run[r].response.data
             /\ run[r].response.data[f] = TRUE

\* C15: a request whose sources are the synthetic set tells so in what it
\* sends: the stream in sources_found, /analyze in its response.
C15_SyntheticSourcesAreFlagged ==
    \A r \in DOMAIN run :
        (run[r].servedFrom = "mock" /\ DeliversSources(r)) => FlagsFallback(r)

\* The events of a stream other than status
Progress(r) == SelectSeq(run[r].events, LAMBDA e : e.type # "status")

\* The j-th of them in a run of n claims, as the specification orders them
ExpectedEvent(e, j, n) ==
    IF j = 1 THEN e.type = "page_type"
    ELSE IF j = 2 THEN e.type = "claims_extracted" /\ e.count = n
    ELSE IF j = 3 THEN e.type = "sources_found"
    ELSE IF j <= n + 3
    THEN e.type = "claim_result" /\ e.index = j - 4 /\ e.total = n
    ELSE j = n + 4 /\ e.type = "complete"

\* C17: a streaming run of n >= 1 claims writes page_type, claims_extracted
\* (n), sources_found, the n claim_result events with index 0..n-1 in order
\* and total n, then complete, and nothing else but status events; once it has
\* ended, it has written them all.
C17_StreamEventOrder ==
    \A r \in StreamRuns :
        Len(run[r].claims) >= 1 =>
            LET n == Len(run[r].claims)
                ev == Progress(r)
            IN  /\ \A j \in 1..Len(ev) : ExpectedEvent(ev[j], j, n)
                /\ run[r].pc = "done" => Len(ev) = n + 4

\* The claim_result events of a stream, in the order written
ClaimResults(r) == SelectSeq(run[r].events, LAMBDA e : e.type = "claim_result")

\* C14: complete is written only after every extracted claim has its
\* claim_result; its claims list holds one verdict per extracted claim, in
\* extraction order, the ones the claim_result events carried, and its
\* credibility score is the confidence-weighted mean over all of them.
C14_CompleteCoversEveryClaim ==
    \A r \in StreamRuns :
        (run[r].pc = "done" /\ LastEvent(r).type = "complete") =>
            LET extracted == extractFactualClaims(run[r].body.text, 10)
                n == Len(extracted)
                data == LastEvent(r).data
                results == ClaimResults(r)
            IN  /\ Len(data.claims) = n
                /\ Len(results) = n
                /\ \A k \in 1..n :
                      /\ data.claims[k].text = extracted[k].text
                      /\ data.claims[k].confidence_score = extracted[k].score
                      /\ data.claims[k].consensus \in Verdicts
                      /\ results[k].claim = data.claims[k]
                /\ n >= 1 =>
                      data.credibility_score.num * ConfidenceSum(data.claims, 1..n)
                          = MappedSum(data.claims, 1..n) * data.credibility_score.den

\* A streaming run of three claims, scored in two batches by the NLI
\* capability, whose extraction order is not the order of the sentences and
\* whose verdicts differ
C14_Witness ==
    /\ env.HF_TOKEN
    /\ run["r1"].mode = "stream"
    /\ run["r1"].pc = "done"
    /\ LastEvent("r1").type = "complete"
    /\ Len(LastEvent("r1").data.claims) = 3
    /\ LastEvent("r1").data.claims[1].text # run["r1"].body.text[1].text
    /\ LastEvent("r1").data.claims[1].consensus # LastEvent("r1").data.claims[3].consensus

\* The state the requests share
SharedState == <<API_CACHE, NLI_CACHE, rateLimitedKeys, currentApiKeyIndex>>

\* Request r carries no text: extractFactualClaims throws on it
WithoutText(rec) == rec.pc # "idle" /\ ~rec.body.hasText

RECURSIVE FieldSum(_, _, _)
FieldSum(scores, field, P) ==
    IF P = {}
    THEN 0
    ELSE LET i == CHOOSE j \in P : TRUE
         IN  scores[i][field] + FieldSum(scores, field, P \ {i})

\* The claim results of request r: pushed to resultClaims, streamed or not
Reported(r) == {run[r].resultClaims[k] : k \in 1..Len(run[r].resultClaims)}

\* The positions of the NLI results the capability or NLI_CACHE gave
Obtained(c) == {k \in 1..Len(c.nliScores) : ~c.failed[k]}

\* C16: the averages of a reported claim are the means over the NLI results
\* obtained, and no score of a failed attempt is among the valid scores the
\* verdict counts.
C16_AveragesOverObtainedResults ==
    \A r \in DOMAIN run : \A c \in Reported(r) :
        /\ c.n = Cardinality(Obtained(c))
        /\ c.entail_sum = FieldSum(c.nliScores, "entail", Obtained(c))
        /\ c.contra_sum = FieldSum(c.nliScores, "contra", Obtained(c))
        /\ ValidPositions(c.nliScores) \subseteq Obtained(c)

(***************************************************************************)
(* SpecWarm: a request, and then a second request with the same text, with *)
(* a search key and an HF token configured, while time passes.  The text   *)
(* gives one claim, so that the NLI results of a request fit in NLI_CACHE  *)
(* (MAX_CACHE_SIZE is scaled down) and none is evicted.                    *)
(***************************************************************************)
WarmBodies == {[hasText |-> TRUE, text |-> <<NavSentence, Sentence1>>]}

WarmSearchReplies ==
    {[kind |-> "error"], [kind |-> "ok", articles |-> <<ArticleB, ArticleA>>]}

WarmNliReplies ==
    {[kind |-> "error"],
     [kind |-> "result", labels |-> <<"supports", "contradicts", "unrelated">>,
      scores |-> <<80, 15, 5>>]}

InitWarm ==
    /\ env = Env("k1", Undefined, TRUE)
    /\ now = 0
    /\ API_CACHE = <<>>
    /\ NLI_CACHE = <<>>
    /\ currentApiKeyIndex = 0
    /\ rateLimitedKeys = {}
    /\ run = [r \in {"a1", "a2"} |-> NewRun("json")]
    /\ turn = [r \in {"a1", "a2"} |-> 0]
    /\ call = NotCalled
    /\ ret = NoReturn
    /\ tab = NoTab

NextWarm ==
    \/ \E mode \in {"stream", "json"}, body \in WarmBodies :
          run["a1"].served = 0 /\ AnalyzeStart("a1", mode, body)
    \/ \E mode \in {"stream", "json"} :
          /\ run["a1"].pc = "done"
          /\ run["a2"].served = 0
          /\ AnalyzeStart("a2", mode, run["a1"].body)
    \/ \E r \in DOMAIN run, pageType \in {"news article"} : ClassifyReturn(r, pageType)
    \/ \E r \in DOMAIN run, reply \in WarmSearchReplies : SearchReply(r, reply)
    \/ \E r \in DOMAIN run : DelayElapsed(r)
    \/ \E r \in DOMAIN run, k \in 1..EVIDENCE_CAP, reply \in WarmNliReplies :
          AnalyzeNliReply(r, k, reply)
    \/ Tick

SpecWarm == InitWarm /\ [][NextWarm]_vars

\* The verdicts request r reports, claim by claim
VerdictLabels(r) ==
    [k \in 1..Len(run[r].resultClaims) |->
        [text |-> run[r].resultClaims[k].text,
         verdict |-> run[r].resultClaims[k].consensus]]

\* Request a2 ran on the text of a1 after it, found the evidence list of a1
\* in API_CACHE, and everything a1 cached is younger than CACHE_TTL
WarmRerun ==
    /\ run["a1"].pc = "done" /\ EndedComplete("a1")
    /\ run["a2"].pc = "done" /\ EndedComplete("a2")
    /\ run["a2"].body = run["a1"].body
    /\ run["a2"].servedFrom = "cache"
    /\ now - run["a1"].startedAt < CACHE_TTL

\* C11: the second of two successive requests on one text, served from the
\* caches the first one left and within the TTL, reports the same verdict
\* for every claim.
C11_WarmRerunSameVerdicts ==
    WarmRerun => VerdictLabels("a2") = VerdictLabels("a1")

(***************************************************************************)
(* SpecQueries: direct calls of buildSearchQueries, on claims whose        *)
(* entities, numbers, verbs, nouns and words are drawn by the initial      *)
(* state: none, some, more than the function takes, an empty string, and   *)
(* strings with a term of the stoplist in them.                            *)
(***************************************************************************)
PeopleInputs ==
    {<<>>, <<<<"Yellen">>>>, <<<<"Yellen">>, <<"Powell">>, <<"Lagarde">>>>, <<<<>>>>,
     <<<<"Fact", "Checker">>>>}
OrganizationInputs == {<<>>, <<<<"Reuters">>>>}
PlaceInputs == {<<>>, <<<<"Paris">>, <<"Rome">>>>}
NumberInputs == {<<>>, <<<<"3%">>>>}
VerbInputs == {<<>>, <<<<"raised">>, <<"rose">>, <<"cut">>>>}
NounInputs ==
    {<<>>, <<<<"tax">>>>, <<<<"page">>>>,
     <<<<"rates">>, <<"tax">>, <<"Treasury">>, <<"chief">>>>}
\* Word lists: none, short words only, stoplist words only, 10 characters
\* after the filters, 12 characters, and more than 8 words that pass
WordInputs ==
    {<<>>, <<"tax", "cut">>, <<"click", "here">>, <<"rates", "rose">>,
     <<"rates", "jumped">>,
     <<"The", "Treasury", "chief", "Yellen", "raised", "rates", "in", "May", "there",
       "Powell", "jumped", "Lagarde", "Reuters", "Paris">>}

QueriesCall(c) ==
    \E people \in PeopleInputs, organizations \in OrganizationInputs,
       places \in PlaceInputs, numbers \in NumberInputs, verbs \in VerbInputs,
       nouns \in NounInputs, words \in WordInputs :
        c = [fn |-> "buildSearchQueries",
             claim |-> [text |-> Text("c1", ""), score |-> 50,
                        entities |-> Entities(people, organizations, places),
                        lex |-> Lex(numbers, verbs, nouns, words)]]

InitQueries ==
    /\ PipelineIdle
    /\ ret = NoReturn
    /\ tab = NoTab
    /\ QueriesCall(call)

ApplyBuildQueries ==
    /\ call.fn = "buildSearchQueries"
    /\ ~ret.done
    /\ ret' = Returned(buildSearchQueries(call.claim, call.claim.entities))
    /\ UNCHANGED <<shared, run, turn, call, tab>>

NextQueries == ApplyBuildQueries

SpecQueries == InitQueries /\ [][NextQueries]_vars

(***************************************************************************)
(* Claims about buildSearchQueries, under SpecQueries.                     *)
(***************************************************************************)
BuildQueriesReturned == call.fn = "buildSearchQueries" /\ ret.done

\* The words that hold a term of the stoplist
StopWords == {"page", "here", "there", "click", "Fact", "Checker"}

\* A string with content and without a stoplist term
Usable(str) == str # <<>> /\ \A i \in 1..Len(str) : str[i] \notin StopWords

\* The first n elements of a list, as a set
Leading(list, n) == {list[i] : i \in 1..Min(n, Len(list))}

\* (a) the top people, organizations and places and the first number
PrimaryYields ==
    \E term \in Leading(call.claim.entities.people, 2)
                    \cup Leading(call.claim.entities.organizations, 2)
                    \cup Leading(call.claim.entities.places, 1)
                    \cup Leading(call.claim.lex.numbers, 1) :
        Usable(term)

\* (b) a leading verb and a leading noun of more than 3 characters
VerbNounYields ==
    /\ call.claim.lex.verbs # <<>>
    /\ \E noun \in Leading(call.claim.lex.nouns, 3) : Usable(noun) /\ length(noun) > 3

RECURSIVE CharSum(_, _)
CharSum(words, P) ==
    IF P = {}
    THEN 0
    ELSE LET i == CHOOSE j \in P : TRUE
         IN  wordLength(words[i]) + CharSum(words, P \ {i})

\* (c) the first 8 words of more than 3 characters without a stoplist term,
\* when they and the spaces between them make more than 10 characters
BagYields ==
    LET words == call.claim.lex.words
        kept == {i \in 1..Len(words) : wordLength(words[i]) > 3 /\ words[i] \notin StopWords}
        bag == {i \in kept : Cardinality({j \in kept : j < i}) < 8}
    IN  bag # {} /\ CharSum(words, bag) + Cardinality(bag) - 1 > 10

\* C19: buildSearchQueries returns 1 to 3 queries, none of them empty, and
\* the generic query, alone, exactly when none of the three strategies yields
\* a query.
C19_OneToThreeQueriesGenericIffNothing ==
    BuildQueriesReturned =>
        /\ Len(ret.value) \in 1..3
        /\ \A k \in 1..Len(ret.value) : ret.value[k] # <<>> /\ length(ret.value[k]) > 0
        /\ (\E k \in 1..Len(ret.value) : ret.value[k] = GenericQuery)
               <=> ~(PrimaryYields \/ VerbNounYields \/ BagYields)
        /\ ~(PrimaryYields \/ VerbNounYields \/ BagYields) => ret.value = <<GenericQuery>>

\* The generic query for a claim with an entity that is an empty string, a
\* verb with nouns that are all too short or on the stoplist, and words that
\* make exactly 10 characters
C19_Witness ==
    /\ BuildQueriesReturned
    /\ ret.value = <<GenericQuery>>
    /\ call.claim.entities.people = <<<<>>>>
    /\ call.claim.lex.verbs # <<>>
    /\ call.claim.lex.nouns = <<<<"page">>>>
    /\ call.claim.lex.words = <<"rates", "rose">>

(***************************************************************************)
(* The browser extension on one page: the content script                   *)
(* (src/unnamed/part_000, from line 240 on), the popup                     *)
(* (src/unnamed/part_001) and the service worker                           *)
(* (extension/service_worker.js).  Lines 1-239 of part_000 declare         *)
(* factCheckOverlay a second time and so belong to another script; they    *)
(* are not modelled.                                                       *)
(***************************************************************************)
MaxClicks == 3
MaxEvents == 1

\* part_000 241-252, with chrome.storage.sync's factCheckEnabled, what
\* detectPageType will find, the popup's messages on their way to the content
\* script and the PAGE_CONTENT requests sent to the service worker
NewTab(stored, news) ==
    [loaded |-> TRUE,
     storage |-> stored,
     news |-> news,
     pc |-> "load",
     factCheckOverlay |-> FALSE,
     factCheckEnabled |-> TRUE,
     currentPageType |-> FALSE,
     isAnalyzing |-> FALSE,
     clicks |-> 0,
     newState |-> <<>>,
     popup |-> <<>>,
     requests |-> <<>>]

\* part_000 522-530: the message, then what the service worker does with it
PageContent(forceAnalysis) ==
    [type |-> "PAGE_CONTENT", forceAnalysis |-> forceAnalysis, pc |-> "sent",
     events |-> 0, updates |-> <<>>]

\* part_000 293-294: false as long as currentPageType is null
isNewsArticle(t) == t.currentPageType /\ t.news

\* part_000 505-531
startAnalysis(t, forceAnalysis) ==
    IF t.isAnalyzing
    THEN t
    ELSE [t EXCEPT !.isAnalyzing = TRUE,
                   !.factCheckOverlay = TRUE,
                   !.requests = Append(@, PageContent(forceAnalysis))]

\* part_000 533-540
clearFactCheckOverlay(t) ==
    [t EXCEPT !.factCheckOverlay = FALSE, !.isAnalyzing = FALSE]

\* part_000 1401-1445: of the globals the claims are about, only isAnalyzing
\* changes; the statements after the assignment at 1431 and 1440 throw when
\* factCheckOverlay is null, which changes nothing more
handleStreamingUpdate(t, data) ==
    IF data.type \in {"complete", "error"}
    THEN [t EXCEPT !.isAnalyzing = FALSE]
    ELSE t

\* part_000 255-263: initializeExtension up to the await of detectPageType
InitializeLoad ==
    /\ tab.pc = "load"
    /\ tab' = [tab EXCEPT !.factCheckEnabled = tab.storage, !.pc = "detect"]
    /\ UNCHANGED <<shared, run, turn, call, ret>>

\* part_000 266-287: initializeExtension after detectPageType
InitializeStart ==
    /\ tab.pc = "detect"
    /\ LET t == [tab EXCEPT !.currentPageType = TRUE, !.pc = "done"]
       IN  tab' = IF t.factCheckEnabled /\ isNewsArticle(t)
                  THEN startAnalysis([t EXCEPT !.factCheckOverlay = TRUE], FALSE)
                  ELSE t
    /\ UNCHANGED <<shared, run, turn, call, ret>>

\* part_001 43-46: a click on the toggle, up to the first await after the
\* setting is stored
ToggleClick ==
    /\ tab.clicks < MaxClicks
    /\ tab.newState = <<>>
    /\ tab' = [tab EXCEPT !.clicks = @ + 1,
                          !.storage = ~tab.storage,
                          !.newState = <<~tab.storage>>]
    /\ UNCHANGED <<shared, run, turn, call, ret>>

\* part_001 64-71: the click handler notifies the content script
ToggleNotify ==
    /\ tab.newState # <<>>
    /\ tab' = [tab EXCEPT !.newState = <<>>,
                          !.popup = Append(@, [action |-> "updateSettings",
                                               factCheckEnabled |-> tab.newState[1]])]
    /\ UNCHANGED <<shared, run, turn, call, ret>>

\* part_001 75-83: a click on the analyze button
AnalyzeClick ==
    /\ tab.clicks < MaxClicks
    /\ tab' = [tab EXCEPT !.clicks = @ + 1,
                          !.popup = Append(@, [action |-> "forceAnalyze",
                                               factCheckEnabled |-> FALSE])]
    /\ UNCHANGED <<shared, run, turn, call, ret>>

\* part_000 477-490
OnUpdateSettings ==
    /\ tab.popup # <<>>
    /\ Head(tab.popup).action = "updateSettings"
    /\ LET t == [tab EXCEPT !.popup = Tail(@),
                            !.factCheckEnabled = Head(tab.popup).factCheckEnabled]
       IN  tab' = IF t.factCheckEnabled /\ isNewsArticle(t) /\ ~t.isAnalyzing
                  THEN startAnalysis([t EXCEPT !.factCheckOverlay = TRUE], FALSE)
                  ELSE IF ~t.factCheckEnabled
                       THEN clearFactCheckOverlay(t)
                       ELSE t
    /\ UNCHANGED <<shared, run, turn, call, ret>>

\* part_000 491-497
OnForceAnalyze ==
    /\ tab.popup # <<>>
    /\ Head(tab.popup).action = "forceAnalyze"
    /\ tab' = startAnalysis([tab EXCEPT !.popup = Tail(@), !.factCheckOverlay = TRUE],
                            TRUE)
    /\ UNCHANGED <<shared, run, turn, call, ret>>

\* service_worker.js 3-41: handlePageContent up to the fetch of
\* /analyze-stream.  hasText tells whether extractMainText (part_000 542-570)
\* found text on the page; a page that is a news article has text.
HandlePageContent(i, hasText) ==
    /\ tab.requests[i].pc = "sent"
    /\ tab.news => hasText
    /\ tab' = [tab EXCEPT !.requests[i].pc =
                              IF ~hasText
                              THEN "returned"
                              ELSE IF ~tab.requests[i].forceAnalysis /\ ~tab.storage
                              THEN "returned"
                              ELSE "streaming"]
    /\ UNCHANGED <<shared, run, turn, call, ret>>

\* service_worker.js 43-76: an event of the stream is forwarded to the tab;
\* 78-92: a failure is forwarded as an error event
StreamEvent(i, type) ==
    /\ tab.requests[i].pc = "streaming"
    /\ type = "status" => tab.requests[i].events < MaxEvents
    /\ tab' = [tab EXCEPT !.requests[i].updates =
                              Append(@, [type |-> "FACTCHECK_UPDATE",
                                         data |-> [type |-> type]]),
                          !.requests[i].events = IF type = "status" THEN @ + 1 ELSE @,
                          !.requests[i].pc = IF type = "status" THEN "streaming" ELSE "done"]
    /\ UNCHANGED <<shared, run, turn, call, ret>>

\* part_000 498-499: the content script receives the next update of a stream
OnFactCheckUpdate(i) ==
    /\ tab.requests[i].updates # <<>>
    /\ tab' = handleStreamingUpdate([tab EXCEPT !.requests[i].updates = Tail(@)],
                                    Head(tab.requests[i].updates).data)
    /\ UNCHANGED <<shared, run, turn, call, ret>>

InitPage ==
    /\ PipelineIdle
    /\ call = NotCalled
    /\ ret = NoReturn
    /\ \E stored \in BOOLEAN, news \in BOOLEAN : tab = NewTab(stored, news)

NextPage ==
    \/ InitializeLoad
    \/ InitializeStart
    \/ ToggleClick
    \/ ToggleNotify
    \/ AnalyzeClick
    \/ OnUpdateSettings
    \/ OnForceAnalyze
    \/ \E i \in 1..Len(tab.requests), hasText \in BOOLEAN : HandlePageContent(i, hasText)
    \/ \E i \in 1..Len(tab.requests) :
           \E type \in {"status", "complete", "error"} : StreamEvent(i, type)
    \/ \E i \in 1..Len(tab.requests) : OnFactCheckUpdate(i)

SpecPage == InitPage /\ [][NextPage]_vars

\* Every step but the user's clicks is taken when it stays possible: the
\* browser runs the scripts' continuations and delivers their messages, the
\* service worker handles each request, and the backend ends each stream
\* with a complete or an error event.
FairSpecPage ==
    /\ SpecPage
    /\ WF_vars(InitializeLoad) /\ WF_vars(InitializeStart) /\ WF_vars(ToggleNotify)
    /\ WF_vars(OnUpdateSettings) /\ WF_vars(OnForceAnalyze)
    /\ \A i \in 1..(MaxClicks + 1) :
           /\ WF_vars(i <= Len(tab.requests)
                          /\ \E hasText \in BOOLEAN : HandlePageContent(i, hasText))
           /\ WF_vars(i <= Len(tab.requests)
                          /\ \E type \in {"complete", "error"} : StreamEvent(i, type))
           /\ WF_vars(i <= Len(tab.requests) /\ OnFactCheckUpdate(i))

(***************************************************************************)
(* Claims about the extension, under SpecPage.                             *)
(***************************************************************************)
\* A request whose stream is open, or whose updates are still on their way to
\* the overlay
Streaming(q) == q.pc = "streaming" \/ q.updates # <<>>

\* C20: on one page at most one analysis is in progress at a time: no two
\* requests have their result streams open, or updates still to arrive at the
\* overlay, at the same time.
C20_AtMostOneAnalysisInProgress ==
    Cardinality({i \in 1..Len(tab.requests) : Streaming(tab.requests[i])}) <= 1

(***************************************************************************)
(* Claims about the credentials and the retries of searchNewsEnhanced,     *)
(* under Spec.                                                             *)
(***************************************************************************)
\* C21: when a search request with credential k is answered with 429, k is in
\* the rate-limited set afterwards and, if some credential is still unmarked,
\* the run's next request is for the same query with another credential.
C21_RetrySameQueryWithNextCredential ==
    \A r \in DOMAIN run : \A i \in 1..Len(run[r].requests) :
        LET request == run[r].requests[i]
        IN  request.reply = "429" =>
                /\ request.key \in request.limitedAfter
                /\ ~(AllCredentials \subseteq request.limitedAfter) =>
                      /\ i < Len(run[r].requests)
                      /\ run[r].requests[i + 1].query = request.query
                      /\ run[r].requests[i + 1].key # request.key

\* The request of a run that is awaiting its reply
Pending(rec) == rec.pc = "search" /\ rec.requests[Len(rec.requests)].reply = "pending"

\* No query is asked again after a request for it failed with another error
\* than 429, and the request after such a failure is for the next query
AbandonedAfterError(rec) ==
    \A i \in 1..Len(rec.requests) :
        rec.requests[i].reply = "error" =>
            /\ \A j \in (i + 1)..Len(rec.requests) :
                  rec.requests[j].query # rec.requests[i].query
            /\ i < Len(rec.requests) =>
                  /\ indexOf(rec.queries, rec.requests[i].query) < Len(rec.queries)
                  /\ rec.requests[i + 1].query
                        = rec.queries[indexOf(rec.queries, rec.requests[i].query) + 1]

\* C22: when a search request fails with an error other than 429, the step
\* that handles the failure sends no request and leaves the rate-limited set
\* and the articles collected so far as they are; the query is not asked
\* again, and the run goes on with the next query or, after the last one,
\* with the result of the search.
C22_OtherErrorAbandonsQuery ==
    [][\A r \in DOMAIN run :
          (/\ Pending(run[r])
           /\ Len(run'[r].requests) >= Len(run[r].requests)
           /\ run'[r].requests[Len(run[r].requests)].reply = "error")
              => /\ rateLimitedKeys' = rateLimitedKeys
                 /\ Len(run'[r].requests) = Len(run[r].requests)
                 /\ run'[r].allArticles = run[r].allArticles
                 /\ IF run[r].qi < Len(run[r].queries)
                    THEN run'[r].pc = "delay" /\ run'[r].servedFrom = "none"
                    ELSE run'[r].servedFrom \in {"fresh", "mock"}
                 /\ AbandonedAfterError(run'[r])]_vars

\* The first query answered with articles, the second with an error, and the
\* list returned holds the articles of the first
C22_Witness ==
    /\ Len(run["r1"].requests) = 2
    /\ run["r1"].requests[1].reply = "ok"
    /\ run["r1"].requests[2].reply = "error"
    /\ run["r1"].requests[2].query # run["r1"].requests[1].query
    /\ run["r1"].servedFrom = "fresh"
    /\ run["r1"].sources # <<>>

(***************************************************************************)
(* SpecCaches: callers of the two cached operations, at the same time and  *)
(* while time passes; two search keys and an HF token are configured.      *)
(* Either p1 and p2 build the queries of one claim and call                *)
(* searchNewsEnhanced, as the handlers do (server.js 955-962), or t1 and   *)
(* t2 post to /test-scoring, or s1 alone calls searchNewsEnhanced for      *)
(* longer claim lists.  Each caller makes the calls of its list below, one *)
(* after the other; MAX_CACHE_SIZE is scaled down to 3, and a pair of      *)
(* callers uses four cache keys, the first of them both.                   *)
(***************************************************************************)
\* A claim whose only query is the name of its one person
ClaimNaming(id, name) ==
    [text |-> Text(id, ""), score |-> 70,
     entities |-> Entities(<<<<name>>>>, <<>>, <<>>),
     lex |-> Lex(<<>>, <<>>, <<>>, <<>>)]

\* The lists claimsWithEntities may be in a caller's successive calls.  s1
\* names two persons in either order, the first time possibly in four claims
\* with three different queries; p1 and p2 name one person per call
ClaimLists(r) ==
    LET both == {<<ClaimNaming("c1", "Yellen"), ClaimNaming("c2", "Powell")>>,
                 <<ClaimNaming("c2", "Powell"), ClaimNaming("c1", "Yellen")>>}
        four == <<ClaimNaming("c2", "Powell"), ClaimNaming("c1", "Yellen"),
                  ClaimNaming("c2", "Powell"), ClaimNaming("c3", "Lagarde")>>
    IN  IF r = "s1" THEN <<both \cup {four}, both>>
        ELSE IF r = "p1"
        THEN <<{<<ClaimNaming("c1", "Yellen")>>}, {<<ClaimNaming("c2", "Powell")>>},
               {<<ClaimNaming("c3", "Lagarde")>>}>>
        ELSE <<{<<ClaimNaming("c1", "Yellen")>>}, {<<ClaimNaming("c4", "Reuters")>>}>>

\* What the search service may answer a caller
CacheSearchReplies(r) ==
    {[kind |-> "429"], [kind |-> "ok", articles |-> <<ArticleB, ArticleA>>]}
        \cup IF r = "s1" THEN {[kind |-> "error"], [kind |-> "noarticles"]} ELSE {}

CacheNliReplies ==
    {[kind |-> "error"],
     [kind |-> "result", labels |-> <<"supports", "contradicts", "unrelated">>,
      scores |-> <<80, 15, 5>>]}

\* The evidence texts t1 and t2 post in their successive requests, with the
\* claim c1
TestScript(r) ==
    IF r = "t1"
    THEN <<Text("e1", ""), Text("e2", ""), Text("e3", "")>>
    ELSE <<Text("e1", ""), Text("e4", "")>>

\* server.js 955-962: a handler builds the queries of its claims and calls
\* searchNewsEnhanced, which runs up to its first await or returns
SearchCall(r, claims) ==
    /\ run[r].mode = "search"
    /\ run[r].pc \in {"idle", "searched"}
    /\ LET fresh == [NewRun("search") EXCEPT !.body = [claims |-> claims],
                                             !.served = run[r].served + 1]
       IN  Commit(r, searchBegin([MachineState(r) EXCEPT !.rec = fresh],
                                 uniqueQueriesOf(claims)))

\* server.js 329-377: axios.get settles for a caller of searchNewsEnhanced
SearchCallReply(r, reply) ==
    /\ run[r].mode = "search"
    /\ run[r].pc = "search"
    /\ Commit(r, onSearchReply(MachineState(r), reply))

\* server.js 386-388: delay(200) elapses for a caller of searchNewsEnhanced
SearchCallDelay(r) ==
    /\ run[r].mode = "search"
    /\ run[r].pc = "delay"
    /\ Commit(r, onDelay(MachineState(r)))

InitCaches ==
    /\ env = Env("k1", "k2", TRUE)
    /\ now = 0
    /\ API_CACHE = <<>>
    /\ NLI_CACHE = <<>>
    /\ currentApiKeyIndex = 0
    /\ rateLimitedKeys = {}
    /\ \E callers \in {{"p1", "p2"}, {"t1", "t2"}, {"s1"}} :
          /\ run = [r \in callers |->
                       NewRun(IF r \in {"t1", "t2"} THEN "test" ELSE "search")]
          /\ turn = [r \in callers |-> 0]
    /\ call = NotCalled
    /\ ret = NoReturn
    /\ tab = NoTab

NextCaches ==
    \/ \E r \in DOMAIN run :
          /\ run[r].mode = "search"
          /\ run[r].served < Len(ClaimLists(r))
          /\ \E claims \in ClaimLists(r)[run[r].served + 1] : SearchCall(r, claims)
    \/ \E r \in DOMAIN run : \E reply \in CacheSearchReplies(r) : SearchCallReply(r, reply)
    \/ \E r \in DOMAIN run : SearchCallDelay(r)
    \/ \E r \in DOMAIN run :
          /\ run[r].mode = "test"
          /\ run[r].served < Len(TestScript(r))
          /\ TestScoringStart(r, TestScript(r)[run[r].served + 1], Text("c1", ""))
    \/ \E r \in DOMAIN run, reply \in CacheNliReplies : TestScoringNliReply(r, reply)
    \* time passes until an entry written at the start has expired
    \/ now < CACHE_TTL /\ Tick

SpecCaches == InitCaches /\ [][NextCaches]_vars

(***************************************************************************)
(* Claims about the selection of credentials, under Spec, where the two    *)
(* keys may be equal.                                                      *)
(***************************************************************************)
\* C23: every request to the search service is issued with a credential that
\* was not in rateLimitedKeys when getAvailableApiKey selected it.
C23_RequestCredentialNotRateLimited ==
    \A r \in DOMAIN run : \A i \in 1..Len(run[r].requests) :
        ~run[r].requests[i].limited

\* A step in which run r selects a credential and issues a request with it
Selects(r) == Len(run'[r].requests) > Len(run[r].requests)

\* C24: rateLimitedKeys loses members only in a step that starts with every
\* configured credential in it; a credential selection that starts with every
\* configured credential in it leaves the set empty; and a run for which
\* credentials are configured never serves the synthetic set without having
\* issued a request.
C24_ClearedWhenAllLimitedAtNextSelection ==
    [][/\ ~(rateLimitedKeys \subseteq rateLimitedKeys') =>
              AllCredentials \subseteq rateLimitedKeys
       /\ \A r \in DOMAIN run :
              /\ r \in DOMAIN run' /\ Selects(r) /\ AllCredentials \subseteq rateLimitedKeys
                     => rateLimitedKeys' = {}
              /\ run'[r].servedFrom = "mock" /\ Len(apiKeys) > 0
                     => Len(run'[r].requests) > 0]_vars

(***************************************************************************)
(* Claims about the two caches and the volume of requests, under           *)
(* SpecCaches.                                                             *)
(***************************************************************************)
\* The requests run record rec has issued for query q
RequestsFor(rec, q) == {i \in 1..Len(rec.requests) : rec.requests[i].query = q}

\* C25: a run hands at most QUERY_CAP queries, no two of them equal, to
\* searchNewsEnhanced, and issues at most as many requests per query as
\* credentials are configured, whatever the replies.
C25_QueriesCappedRequestsBounded ==
    \A r \in DOMAIN run :
        LET rec == run[r]
        IN  /\ Len(rec.queries) <= QUERY_CAP
            /\ \A i, j \in 1..Len(rec.queries) : i # j => rec.queries[i] # rec.queries[j]
            /\ \A i \in 1..Len(rec.queries) :
                   Cardinality(RequestsFor(rec, rec.queries[i])) <= Len(apiKeys)

\* The claims of s1 gave more than QUERY_CAP different queries; the run handed
\* QUERY_CAP of them on and used every attempt of its first query, on a reply
\* without articles and on a 429
C25_Witness ==
    /\ "s1" \in DOMAIN run
    /\ LET rec == run["s1"]
       IN  /\ rec.pc = "searched"
           /\ Len(rec.body.claims) = 4
           /\ Len(rec.queries) = QUERY_CAP
           /\ Cardinality(RequestsFor(rec, rec.queries[1])) = Len(apiKeys)
           /\ rec.requests[1].reply = "noarticles"
           /\ rec.requests[2].reply = "429"
           /\ Cardinality(RequestsFor(rec, rec.queries[2])) > 0

\* The members of a sequence
Members(s) == {s[i] : i \in 1..Len(s)}

\* A step in which caller r calls searchNewsEnhanced
CallsSearch(r) ==
    /\ run'[r].mode = "search"
    /\ run'[r].served = run[r].served + 1

\* C26: when searchNewsEnhanced is called with queries that are, in some
\* order, the queries of an API_CACHE entry younger than CACHE_TTL, the call
\* issues no request, leaves rateLimitedKeys and currentApiKeyIndex as they
\* are and returns the result of that entry.
C26_FreshHitInAnyOrderServesCache ==
    [][\A r \in DOMAIN run : \A k \in 1..Len(API_CACHE) :
           LET queries == uniqueQueriesOf(run'[r].body.claims)
               entry == API_CACHE[k]
           IN  (/\ CallsSearch(r)
                /\ Len(entry.key) = Len(queries)
                /\ Members(entry.key) = Members(queries)
                /\ now - entry.value.timestamp < CACHE_TTL)
               => /\ run'[r].requests = <<>>
                  /\ rateLimitedKeys' = rateLimitedKeys
                  /\ currentApiKeyIndex' = currentApiKeyIndex
                  /\ run'[r].pc = "searched"
                  /\ run'[r].sources = entry.value.result]_vars

\* s1 called with its queries in another order than the entry's key has them
\* and was served the entry
C26_Witness ==
    /\ "s1" \in DOMAIN run
    /\ LET rec == run["s1"]
       IN  /\ rec.servedFrom = "cache"
           /\ uniqueQueriesOf(rec.body.claims) # rec.queries
           /\ rec.requests = <<>>
           /\ MapHas(API_CACHE, rec.queries)
           /\ rec.sources = MapGet(API_CACHE, rec.queries).result

\* A step in which caller r posts to /test-scoring and performEnhancedNLI
\* looks its pair up in NLI_CACHE
CallsNli(r) ==
    /\ run'[r].mode = "test"
    /\ run'[r].served = run[r].served + 1
    /\ run'[r].calls # <<>>
    /\ run'[r].calls[1].lookup

\* C27: a lookup that finds an entry of age CACHE_TTL or more deletes the
\* entry and has the value computed anew (a search request is issued, the
\* external NLI call is made); what a lookup serves from a cache is the
\* result of an entry younger than CACHE_TTL.
C27_ExpiredEntryDeletedAndRecomputed ==
    [][\A r \in DOMAIN run :
           /\ CallsSearch(r) =>
                 LET queries == uniqueQueriesOf(run'[r].body.claims)
                     Same(key) == Len(key) = Len(queries) /\ Members(key) = Members(queries)
                     Age(entry) == now - entry.value.timestamp
                 IN  /\ \A k \in 1..Len(API_CACHE) :
                            Same(API_CACHE[k].key) /\ Age(API_CACHE[k]) >= CACHE_TTL
                                => /\ run'[r].servedFrom = "none"
                                   /\ run'[r].pc = "search"
                                   /\ run'[r].requests # <<>>
                                   /\ \A h \in 1..Len(API_CACHE') : ~Same(API_CACHE'[h].key)
                     /\ run'[r].servedFrom = "cache" =>
                            \E k \in 1..Len(API_CACHE) :
                                /\ Same(API_CACHE[k].key)
                                /\ Age(API_CACHE[k]) < CACHE_TTL
                                /\ run'[r].sources = API_CACHE[k].value.result
           /\ CallsNli(r) =>
                 LET key == nliCacheKey(run'[r].body.evidence, run'[r].body.claim)
                     c == run'[r].calls[1]
                 IN  /\ MapHas(NLI_CACHE, key)
                            /\ now - MapGet(NLI_CACHE, key).timestamp >= CACHE_TTL
                                => /\ ~MapHas(NLI_CACHE', key)
                                   /\ run'[r].pc = "nli"
                                   /\ c.state = "pending" /\ c.external
                     /\ c.state = "done" =>
                            /\ MapHas(NLI_CACHE, key)
                            /\ now - MapGet(NLI_CACHE, key).timestamp < CACHE_TTL
                            /\ c.result = MapGet(NLI_CACHE, key).result]_vars

\* s1 found an expired entry under its key, issued requests and stored what
\* they returned
C27_Witness ==
    /\ "s1" \in DOMAIN run
    /\ LET rec == run["s1"]
       IN  /\ rec.expired
           /\ rec.servedFrom = "fresh"
           /\ rec.requests # <<>>
           /\ MapHas(API_CACHE, rec.queries)
           /\ MapGet(API_CACHE, rec.queries).timestamp = now
           /\ now >= CACHE_TTL

\* C28: API_CACHE and NLI_CACHE each hold at most MAX_CACHE_SIZE entries, in
\* every reachable state of callers running at the same time.
C28_CachesWithinMaxSize ==
    /\ Len(API_CACHE) <= MAX_CACHE_SIZE
    /\ Len(NLI_CACHE) <= MAX_CACHE_SIZE

\* API_CACHE is full and the entry a caller's searchNewsEnhanced stored is no
\* longer in it: no time has passed, so a later insertion evicted it
C28_Witness ==
    /\ "p1" \in DOMAIN run
    /\ now = 0
    /\ Len(API_CACHE) = MAX_CACHE_SIZE
    /\ \E r \in DOMAIN run :
           /\ run[r].servedFrom = "fresh"
           /\ ~MapHas(API_CACHE, run[r].queries)

\* The positions in cache c of the entries whose keys cache d no longer has
Evicted(c, d) == {k \in 1..Len(c) : ~MapHas(d, c[k].key)}

\* Cache d has an entry that cache c has not: a step from c to d has written it
Inserted(c, d) == \E h \in 1..Len(d) : \A k \in 1..Len(c) : c[k] # d[h]

\* No entry of cache c has an older timestamp than its k-th
Oldest(c, k) == \A j \in 1..Len(c) : c[k].value.timestamp <= c[j].value.timestamp

\* C29: an insertion that removes an entry from a cache removes one that has
\* the oldest timestamp among the entries the cache held.
C29_EvictsOldestTimestamp ==
    [][/\ Inserted(API_CACHE, API_CACHE') =>
              \A k \in Evicted(API_CACHE, API_CACHE') : Oldest(API_CACHE, k)
       /\ Inserted(NLI_CACHE, NLI_CACHE') =>
              \A k \in Evicted(NLI_CACHE, NLI_CACHE') : Oldest(NLI_CACHE, k)]_vars

(***************************************************************************)
(* A claim about what searchNewsEnhanced returns, under Spec.              *)
(***************************************************************************)
\* C30: whatever path searchNewsEnhanced returns on (from API_CACHE, without
\* a configured credential, with every credential rate-limited, with every
\* query failed, without an article, or with articles), the list it returns
\* is not empty.
C30_SearchReturnsNonEmptyList ==
    \A r \in DOMAIN run :
        run[r].servedFrom # "none" =>
            /\ run[r].servedFrom \in {"cache", "mock", "fresh"}
            /\ Len(run[r].sources) > 0

\* Credentials are configured, every request of the run failed with an error
\* other than 429, and the run was served the synthetic set
C30_Witness ==
    \E r \in DOMAIN run :
        /\ Len(apiKeys) > 0
        /\ run[r].servedFrom = "mock"
        /\ Len(run[r].requests) > 1
        /\ \A i \in 1..Len(run[r].requests) : run[r].requests[i].reply = "error"
        /\ run[r].sources = getMockSources

(***************************************************************************)
(* SpecValidate: one performEnhancedNLI call with an HF token and an empty *)
(* NLI_CACHE; the initial state draws the pair and the reply of the        *)
(* external capability, null scores included.                              *)
(***************************************************************************)
NullReplyScores == {<<JsNull, 60, 40>>, <<JsNull, 15, 5>>, <<80, 15, JsNull>>}

ValidateReplies ==
    AnyNliReply
        \cup {[kind |-> "result", labels |-> <<"supports", "contradicts", "unrelated">>,
               scores |-> sc] : sc \in NullReplyScores}

InitValidate ==
    /\ env = [NEWS_API_KEY |-> Undefined, NEWS_API_KEY_1 |-> Undefined, HF_TOKEN |-> TRUE]
    /\ now = 0
    /\ API_CACHE = <<>>
    /\ NLI_CACHE = <<>>
    /\ currentApiKeyIndex = 0
    /\ rateLimitedKeys = {}
    /\ run = <<>>
    /\ turn = <<>>
    /\ \E e \in {Text("e1", ""), Text("e2", ""), Text("e3", "")}, reply \in ValidateReplies :
           call = [fn |-> "performEnhancedNLI", evidence |-> e, claim |-> Text("c1", ""),
                   reply |-> reply]
    /\ ret = NoReturn
    /\ tab = NoTab

\* server.js 608-696: the call, with the reply the initial state drew
ApplyPerformEnhancedNLI ==
    /\ call.fn = "performEnhancedNLI"
    /\ ~ret.done
    /\ LET begun == nliBegin(env.HF_TOKEN, NLI_CACHE, now, call.evidence, call.claim)
           ended == nliEnd(begun.cache, now, call.evidence, call.claim, call.reply)
       IN  /\ ret' = Returned(IF begun.done THEN begun.result ELSE ended.result)
           /\ NLI_CACHE' = IF begun.done THEN begun.cache ELSE ended.cache
    /\ UNCHANGED <<env, now, API_CACHE, currentApiKeyIndex, rateLimitedKeys,
                   run, turn, call, tab>>

SpecValidate == InitValidate /\ [][ApplyPerformEnhancedNLI]_vars

(***************************************************************************)
(* A claim about the validation in performEnhancedNLI, under SpecValidate. *)
(***************************************************************************)
\* The three mapped scores are numbers that sum to between 0.5 and 1.5
ValidatedScores(s) ==
    /\ \A x \in {s.entail, s.contra, s.neutral} : x \notin {NaN, JsNull}
    /\ s.entail + s.contra + s.neutral >= 50
    /\ s.entail + s.contra + s.neutral <= 150

\* C31: a reply whose mapped scores are not all numbers or do not sum to
\* between 0.5 and 1.5, an error and a timeout all make performEnhancedNLI
\* return the fallback scorer's result and leave NLI_CACHE as it was; every
\* entry of NLI_CACHE holds validated scores.
C31_InvalidReplyFallsBackUncached ==
    /\ (call.fn = "performEnhancedNLI" /\ ret.done) =>
           LET reply == call.reply
               usable == /\ reply.kind = "result"
                         /\ ValidatedScores(nliScoresOf(reply.labels, reply.scores))
           IN  ~usable =>
                   /\ ret.value = fallbackScoring(call.evidence, call.claim)
                   /\ NLI_CACHE = <<>>
    /\ \A k \in 1..Len(NLI_CACHE) : ValidatedScores(NLI_CACHE[k].value.result)

KeptSentences ==
    {i \in 1..Len(call.text) : call.text[i].passes /\ ~(call.text[i].score < 40)}

\* C33: extractFactualClaims returns at most min(k, 15) claims, in
\* non-increasing score order; a sentence that passes the content filters is
\* dropped exactly when its score is below 0.4, and the claims returned are
\* the highest-scoring of the kept sentences.
C33_TopClaimsByScore ==
    (call.fn = "extractFactualClaims" /\ ret.done) =>
        LET claims == ret.value
            returned == {claims[j].text : j \in 1..Len(claims)}
        IN  /\ Len(claims) = Min(Cardinality(KeptSentences), Min(call.k, 15))
            /\ \A i, j \in 1..Len(claims) : i < j => claims[i].score >= claims[j].score
            /\ Cardinality(returned) = Len(claims)
            /\ returned \subseteq KeptSentences
            /\ \A j \in 1..Len(claims) : claims[j].score = call.text[claims[j].text].score
            /\ \A i \in KeptSentences \ returned, j \in 1..Len(claims) :
                   call.text[i].score <= claims[j].score

\* Seventeen sentences, one filtered out and one scored below 0.4, and k = 20:
\* fifteen claims come back
C33_Witness ==
    /\ call.fn = "extractFactualClaims"
    /\ ret.done
    /\ call.k = 20
    /\ Len(call.text) = 17
    /\ call.text[5].score = 39
    /\ Len(ret.value) = 15
    /\ ret.value[1].score > ret.value[15].score

(***************************************************************************)
(* Claims about the numbers and the sources behind a reported claim, under *)
(* Spec.                                                                   *)
(***************************************************************************)
\* What calculateWeightedConsensus accumulated for the reported claim c of
\* request r
Accumulated(r, c) ==
    accumulate(c.nliScores, Slice(run[r].sources, EVIDENCE_CAP), Len(c.nliScores))

\* C34: the entail and contra averages reported for a claim are the
\* reputability-weighted means its verdict was classified from, so the
\* reported averages and the reported verdict satisfy the threshold table.
C34_ReportedAveragesAreWeightedMeans ==
    \A r \in DOMAIN run : \A c \in Reported(r) :
        enoughScores(Accumulated(r, c)) =>
            /\ c.entail_sum * Accumulated(r, c).totalWeight
                   = Accumulated(r, c).weightedEntail * c.n
            /\ c.contra_sum * Accumulated(r, c).totalWeight
                   = Accumulated(r, c).weightedContra * c.n
            /\ c.consensus = classify(c.entail_sum, c.contra_sum, c.n)

\* The sources of request r whose evidence text is longer than 30
\* characters, in order: the k-th of them produced evidenceTexts[k]
Producing(r) == SelectSeq(run[r].sources, LAMBDA src : src.long)

\* C35: the reputability weight applied to the k-th NLI result of a reported
\* claim is the weight of the source whose text produced the k-th evidence,
\* also when sources with a short evidence text were filtered out.
C35_WeightOfTheProducingSource ==
    \A r \in DOMAIN run : \A c \in Reported(r) : \A k \in 1..Len(c.nliScores) :
        /\ run[r].evidenceTexts[k] = Producing(r)[k].text
        /\ weightOf(run[r].sources[k]) = weightOf(Producing(r)[k])

(***************************************************************************)
(* A claim about the last branch of calculateWeightedConsensus, under      *)
(* SpecScoring.                                                            *)
(***************************************************************************)
\* At least two scores count and none of them has a negative entail or
\* contra value
TwoValidNonNegative ==
    /\ Cardinality(ValidPositions(call.scores)) >= 2
    /\ \A i \in ValidPositions(call.scores) :
           call.scores[i].entail >= 0 /\ call.scores[i].contra >= 0

\* C36: with at least 2 valid scores whose entail and contra values are all
\* non-negative, calculateWeightedConsensus never returns
\* insufficient_evidence.
C36_FallThroughUnreachable ==
    (ConsensusReturned /\ TwoValidNonNegative) => ret.value # "insufficient_evidence"

\* The branch before the fall-through: means further than 0.1 apart that no
\* earlier rule takes
C36_Witness ==
    /\ ConsensusReturned
    /\ TwoValidNonNegative
    /\ ret.value \in {"weakly_supported", "weakly_refuted"}

\* C37: the mock_data flag of sources_found is true exactly when the sources
\* delivered are the synthetic fallback set; it is false when real sources
\* were retrieved with the backup credential alone.
C37_MockFlagIffSyntheticSources ==
    \A r \in DOMAIN run : \A j \in SourcesFound(r) :
        run[r].events[j].mock_data <=> (run[r].sources = getMockSources)

(***************************************************************************)
(* SpecBoth: the text of one request is handed to /analyze-stream (run s)  *)
(* and to /analyze (run j), each in its own copy of the same server state, *)
(* and every external reply is given to both.  The two handlers advance    *)
(* together while they wait for the same reply; the shared variables hold  *)
(* the module state of the two copies, and ret tells whether the two       *)
(* copies have stayed equal.                                               *)
(***************************************************************************)
\* The external replies a handler in state rec may get next
RepliesFor(rec) ==
    IF rec.pc = "classify" THEN {[pageType |-> p] : p \in PageTypes}
    ELSE IF rec.pc = "search" THEN {[reply |-> x] : x \in SearchReplies}
    ELSE IF rec.pc = "delay" THEN {[elapsed |-> TRUE]}
    ELSE IF rec.pc = "nli"
    THEN {[k |-> k, reply |-> x] :
             k \in {i \in 1..Len(rec.calls) : rec.calls[i].state = "pending"},
             x \in NliReplies}
    ELSE {}

\* The handler of machine state st goes on with the reply: the steps of
\* ClassifyReturn, SearchReply, DelayElapsed and AnalyzeNliReply
handlerStep(st, in) ==
    Only({IF s.rec.pc = "classify" THEN afterClassify(s, in.pageType)
          ELSE IF s.rec.pc = "search" THEN resume(onSearchReply(s, in.reply))
          ELSE IF s.rec.pc = "delay" THEN resume(onDelay(s))
          ELSE LET c == s.rec.calls[in.k]
                   ended == nliEnd(s.nli, now, c.evidence, c.claim, in.reply)
               IN  settle([s EXCEPT !.nli = ended.cache,
                                    !.rec.calls[in.k].state = "done",
                                    !.rec.calls[in.k].result = ended.result,
                                    !.rec.calls[in.k].failed = ended.failed]) :
          s \in {st}})

\* The two handlers have taken a step each, from the same module state
Together(stS, stJ) ==
    \E a \in {stS}, b \in {stJ} :
        /\ run' = [run EXCEPT !["s"] = a.rec, !["j"] = b.rec]
        /\ API_CACHE' = b.api
        /\ NLI_CACHE' = b.nli
        /\ rateLimitedKeys' = b.rl
        /\ currentApiKeyIndex' = b.idx
        /\ turn' = [r \in DOMAIN turn |-> 1 - turn[r]]
        /\ ret' = Returned(ret.value /\ [a EXCEPT !.rec = {}] = [b EXCEPT !.rec = {}])
        /\ UNCHANGED <<env, now, call, tab>>

InitBoth ==
    /\ env \in EnvInputs \cup {Env("k1", Undefined, TRUE)}
    /\ now = 0
    /\ API_CACHE = <<>>
    /\ NLI_CACHE = <<>>
    /\ currentApiKeyIndex = 0
    /\ rateLimitedKeys = {}
    /\ run = [r \in {"s", "j"} |-> NewRun(IF r = "s" THEN "stream" ELSE "json")]
    /\ turn = [r \in {"s", "j"} |-> 0]
    /\ call = NotCalled
    /\ ret = Returned(TRUE)
    /\ tab = NoTab

\* server.js 892-912 and 1125-1130: the same request arrives at both
BothStart(body) ==
    /\ \A r \in DOMAIN run : run[r].pc = "idle"
    /\ LET arrived(r) ==
               emit([MachineState(r) EXCEPT
                        !.rec = [run[r] EXCEPT !.body = body, !.served = 1,
                                               !.startedAt = now, !.pc = "classify"]],
                    Status("Starting analysis..."))
       IN  Together(arrived("s"), arrived("j"))

\* Both handlers wait for the same reply and get it
BothStep ==
    /\ run["s"].pc = run["j"].pc
    /\ \E in \in RepliesFor(run["s"]) \cap RepliesFor(run["j"]) :
           Together(handlerStep(MachineState("s"), in), handlerStep(MachineState("j"), in))

\* One handler has ended and the other goes on
AloneStep(r) ==
    /\ run[r].pc # "done"
    /\ \A o \in DOMAIN run \ {r} : run[o].pc = "done"
    /\ \E in \in RepliesFor(run[r]) : Commit(r, handlerStep(MachineState(r), in))

NextBoth ==
    \/ \E body \in Bodies : BothStart(body)
    \/ BothStep
    \/ \E r \in DOMAIN run : AloneStep(r)

SpecBoth == InitBoth /\ [][NextBoth]_vars

(***************************************************************************)
(* A claim about the two analyze operations, under SpecBoth.               *)
(***************************************************************************)
\* What a finished request answered: its claims with their verdicts and its
\* credibility score, or that it failed
Answer(r) ==
    LET rec == run[r]
        data == IF rec.mode = "stream"
                THEN rec.events[Len(rec.events)].data
                ELSE rec.response.data
        failed == IF rec.mode = "stream"
                  THEN rec.events[Len(rec.events)].type # "complete"
                  ELSE rec.response.status # 200
    IN  IF failed THEN [failed |-> TRUE]
        ELSE [failed |-> FALSE,
              claims |-> [k \in 1..Len(data.claims) |->
                             [text |-> data.claims[k].text,
                              verdict |-> data.claims[k].consensus]],
              credibility_score |-> IF data.has_credibility
                                    THEN data.credibility_score ELSE Undefined]

\* C38: given the same text, the same cache contents, the same credential
\* state and the same external replies, /analyze-stream and /analyze answer
\* with the same claims, the same verdict for each claim and the same
\* credibility score.
C38_StreamAndJsonAgree ==
    (ret.value /\ run["s"].pc = "done" /\ run["j"].pc = "done") =>
        Answer("s") = Answer("j")

(***************************************************************************)
(* SpecRelay: the read loop of the service worker (service_worker.js       *)
(* 43-76) on the body of a /analyze-stream response.  The backend writes   *)
(* each event as "data: <json>\n\n"; the body arrives in chunks cut at any *)
(* place.  A body is a sequence of symbols: the prefix "data: ", the json  *)
(* text of an event in two halves, and line feeds.  call holds the events  *)
(* written and the chunks still to be read, ret the messages sent to the   *)
(* tab and whether the loop has ended.                                     *)
(***************************************************************************)
Sym(kind, ev, part) == [kind |-> kind, ev |-> ev, part |-> part]

\* server.js 896-1112: res.write(`data: ${JSON.stringify(event)}\n\n`)
EventBytes(k) ==
    <<Sym("data: ", 0, 0), Sym("json", k, 1), Sym("json", k, 2),
      Sym("\n", 0, 0), Sym("\n", 0, 0)>>

\* The streams of event types the backend writes: a run to its complete
\* event, a run that fails, and a connection that closes early
StreamInputs ==
    {<<"status", "claim_result", "complete">>, <<"status", "error">>, <<"status">>}

\* The cuts of a body of n symbols into chunks, at most MaxCuts of them
MaxCuts == 2

\* The chunks of `bytes` for the set `cuts` of the places after which a chunk
\* ends
RECURSIVE chunksOf(_, _, _)
chunksOf(bytes, cuts, from) ==
    IF from > Len(bytes) THEN <<>>
    ELSE LET ends == {c \in cuts : c >= from}
             to == IF ends = {} THEN Len(bytes)
                   ELSE CHOOSE c \in ends : \A d \in ends : c <= d
         IN  <<SubSeq(bytes, from, to)>> \o chunksOf(bytes, cuts, to + 1)

\* String.prototype.split('\n') (service_worker.js 52)
RECURSIVE splitLines(_)
splitLines(chunk) ==
    IF \A i \in 1..Len(chunk) : chunk[i].kind # "\n" THEN <<chunk>>
    ELSE LET i == CHOOSE j \in 1..Len(chunk) :
                      chunk[j].kind = "\n" /\ \A h \in 1..(j - 1) : chunk[h].kind # "\n"
         IN  <<SubSeq(chunk, 1, i - 1)>> \o splitLines(SubSeq(chunk, i + 1, Len(chunk)))

\* service_worker.js 55-57: line.startsWith('data: ') and JSON.parse of the
\* rest, which succeeds on the whole json text of an event only
parses(line) ==
    /\ Len(line) = 3
    /\ line[1].kind = "data: "
    /\ line[2] = Sym("json", line[2].ev, 1)
    /\ line[3] = Sym("json", line[2].ev, 2)

\* service_worker.js 54-75: the loop over the lines of a chunk; st.sent are
\* the events forwarded, st.returned tells that line 69 was reached
RECURSIVE forwardLines(_, _, _)
forwardLines(st, lines, events) ==
    IF lines = <<>> \/ st.returned THEN st
    ELSE IF ~parses(Head(lines)) THEN forwardLines(st, Tail(lines), events)
    ELSE LET ev == Head(lines)[2].ev
         IN  forwardLines([sent |-> Append(st.sent, ev),
                           returned |-> events[ev] \in {"complete", "error"}],
                          Tail(lines), events)

InitRelay ==
    /\ PipelineIdle
    /\ tab = NoTab
    /\ \E events \in StreamInputs :
           LET bytes == Flatten([k \in 1..Len(events) |-> EventBytes(k)])
           IN  \E cuts \in SUBSET (1..(Len(bytes) - 1)) :
                   /\ Cardinality(cuts) <= MaxCuts
                   /\ call = [fn |-> "handlePageContent", events |-> events,
                              chunks |-> chunksOf(bytes, cuts, 1), cuts |-> cuts]
    /\ ret = [done |-> FALSE, value |-> <<>>]

\* service_worker.js 47-75: reader.read() gives the next chunk
ReadChunk ==
    /\ call.fn = "handlePageContent"
    /\ ~ret.done
    /\ call.chunks # <<>>
    /\ LET st == forwardLines([sent |-> ret.value, returned |-> FALSE],
                              splitLines(Head(call.chunks)), call.events)
       IN  /\ ret' = [done |-> st.returned, value |-> st.sent]
           /\ call' = [call EXCEPT !.chunks = Tail(@)]
    /\ UNCHANGED <<shared, run, turn, tab>>

\* service_worker.js 47-49: reader.read() reports the end of the body
ReadDone ==
    /\ call.fn = "handlePageContent"
    /\ ~ret.done
    /\ call.chunks = <<>>
    /\ ret' = [ret EXCEPT !.done = TRUE]
    /\ UNCHANGED <<shared, run, turn, call, tab>>

NextRelay == ReadChunk \/ ReadDone

SpecRelay == InitRelay /\ [][NextRelay]_vars

(***************************************************************************)
(* A claim about the read loop, under SpecRelay.                           *)
(***************************************************************************)
\* The events of the stream up to its first complete or error event
UpToTerminal(events) ==
    LET terminal == {k \in 1..Len(events) : events[k] \in {"complete", "error"}}
        last == IF terminal = {} THEN Len(events)
                ELSE CHOOSE k \in terminal : \A j \in terminal : k <= j
    IN  [k \in 1..last |-> k]

\* C39: however the body is cut into chunks, the service worker forwards
\* every event of the stream once and in the order written, up to the first
\* complete or error event, and reads no further.
C39_EveryEventForwardedOnce ==
    /\ (call.fn = "handlePageContent" /\ ret.done) =>
           ret.value = UpToTerminal(call.events)
    /\ (call.fn = "handlePageContent" /\ ~ret.done) =>
           \A k \in 1..Len(ret.value) : call.events[ret.value[k]] \notin {"complete", "error"}

(***************************************************************************)
(* A claim about the end of an analysis on the page, under FairSpecPage.   *)
(***************************************************************************)
\* C40: after every startAnalysis the content script's isAnalyzing flag is
\* false again at some later time, so that no later analysis request is
\* skipped for good as already in progress.
C40_IsAnalyzingEventuallyFalse ==
    [](tab.isAnalyzing => <>(~tab.isAnalyzing))

====
